---- MODULE Spec2Model ----
(***************************************************************************)
(* A model of the secure multi-tenant execution runtime of ecs-bc: the     *)
(* entity access-control table, the gas ledger, the system scheduler and   *)
(* the two capability contexts handed to user programs.                    *)
(*                                                                         *)
(* The module holds several specifications over one set of variables; each *)
(* specification drives one part of the runtime and leaves the variables   *)
(* of the other parts at their constructed values.                         *)
(***************************************************************************)
EXTENDS Integers, Sequences, FiniteSets, TLC

VARIABLES entityOwnership,    \* EntityAccessControl.entityOwnership : id -> EntityOwnership
          systemEntityCounts, \* EntityAccessControl.systemEntityCounts : SystemId -> number
          lastCall,           \* the last call made on the table or on a capability context
          gasConfig,          \* GasTracker.config : the merged GasConfig of the running program
          gasUsed,            \* GasTracker.gasUsed
          gasLog,             \* the consumeGas calls made on the ledger since it was fresh
          schedSystems,       \* SystemScheduler.systems : name -> SystemInfo
          executionOrder,     \* SystemScheduler.executionOrder
          isRunning,          \* SystemScheduler.isRunning
          pc,                 \* where the host is: "idle", in executeSystems' "loop", or in a tick ("exec")
          loopIndex,          \* position of executeSystems' for-of loop in executionOrder
          tickLog,            \* the ticks of the current pass, in order, and how each ended
          frameCount,         \* World.frameCount
          progLocal,          \* a local variable of the running program
          progCaught,         \* the running program has caught a gas failure in this tick
          generations,        \* EntityAllocator.generations
          freeList,           \* EntityAllocator.freeList
          entityComponents,   \* World.entityToArchetype : id -> the component types of its archetype
          componentRegistrations, \* DynamicComponentRegistry: the <<systemId, name>> pairs defined
          components,         \* ComponentRegistry.components, the dynamic types: name -> id
          staticIds,          \* the ids of the built-in types in ComponentRegistry.components
          nextId,             \* ComponentRegistry.nextId
          usedIds,            \* DynamicComponentRegistry.usedIds
          nextDynamicId,      \* DynamicComponentRegistry.nextDynamicId
          hashedIdToRegistration, \* DynamicComponentRegistry.hashedIdToRegistration
          systemComponents,   \* DynamicComponentRegistry.systemComponents : SystemId -> ids
          lastDefine,         \* the last call made on the two registries
          everDeclared,       \* the <<systemId, name>> pairs ever registered by defineComponent
          loadedSystems,      \* SystemLoader.loadedSystems : name -> LoadResult
          nextUserSystemId,   \* UserSystem.nextId
          lastLoad,           \* the last load or unload the host asked for
          valSource,          \* the source handed to the security validator
          valResult,          \* what the validator made of it
          subscriptions,      \* EventSystem.subscriptions : event type -> EventSubscription[]
          systemSubscriptions, \* EventSystem.systemSubscriptions : SystemId -> ids
          eventHistory,       \* EventSystem.eventHistory : event type -> SystemEvent[]
          nextSubscriptionId, \* EventSystem.nextSubscriptionId
          lastEmit,           \* the last emit made on the event system
          archetypeHeap,      \* the Archetype objects constructed, by position
          archetypes,         \* World.archetypes : hash key -> archetype
          archetypeList,      \* World.archetypeList
          entityToArchetype,  \* World.entityToArchetype : id -> archetype
          maskBuild,          \* which version of component-mask.ts the build holds
          lastStore           \* the last call made on the world store

aclVars == <<entityOwnership, systemEntityCounts, lastCall>>

gasVars == <<gasConfig, gasUsed, gasLog>>

schedVars == <<schedSystems, executionOrder, isRunning, pc, loopIndex, tickLog,
               frameCount, progLocal, progCaught>>

ctxVars == <<generations, freeList, entityComponents, componentRegistrations>>

regVars == <<components, staticIds, nextId, usedIds, nextDynamicId,
             hashedIdToRegistration, systemComponents, lastDefine, everDeclared>>

loadVars == <<loadedSystems, nextUserSystemId, lastLoad>>

valVars == <<valSource, valResult>>

evtVars == <<subscriptions, systemSubscriptions, eventHistory, nextSubscriptionId,
             lastEmit>>

storeVars == <<archetypeHeap, archetypes, archetypeList, entityToArchetype, maskBuild,
               lastStore>>

serviceVars == <<regVars, loadVars, valVars, evtVars, storeVars>>

vars == <<aclVars, gasVars, schedVars, ctxVars, serviceVars>>

(***************************************************************************)
(* Identities and inputs                                                   *)
(***************************************************************************)

\* Deployment names of the loaded programs (SystemId is a string).
Systems == {"A", "B", "C"}

\* Entity ids presented to the access-control table.
EntityIds == {0}

READ == "read"
WRITE == "write"
DELETE == "delete"
EXECUTE == "execute"
DELEGATE == "delegate"
TRANSFER == "transfer"

\* enum Permission
Permission == {READ, WRITE, DELETE, EXECUTE, DELEGATE, TRANSFER}

\* registerEntity's default permission array
DefaultPermissions == {READ, WRITE, DELETE}

\* "no value" for an optional argument (options.owner, options.permissions)
None == "none"

\* The permission arrays callers pass to grantAccess.
GrantLists == {{READ}, {WRITE}, {DELEGATE}}

\* options.permissions of createEntity / registerEntity: absent (<<>>), or an
\* array (<<its elements>>).
NoPermissions == <<>>
PermissionOptions == {NoPermissions, <<{}>>, <<{READ}>>}

\* options.owner: absent, or a system id.
OwnerOptions == {None} \cup Systems

(***************************************************************************)
(* EntityAccessControl, as operators on the ownership table `eo`.          *)
(* A permission or delegate array is only ever tested with includes() and  *)
(* extended by push-if-absent, so it is modelled by the set of its         *)
(* elements.                                                               *)
(***************************************************************************)

HasRecord(eo, id) == id \in DOMAIN eo

\* `a || b` on an optional argument
OrElse(opt, dflt) == IF opt = None THEN dflt ELSE opt

\* Map.set(key, value)
MapSet(m, k, v) == [x \in (DOMAIN m) \cup {k} |-> IF x = k THEN v ELSE m[x]]

\* Map.delete(key)
MapDelete(m, k) == [x \in (DOMAIN m) \ {k} |-> m[x]]

\* Map.get(key) || 0
CountOf(counts, s) == IF s \in DOMAIN counts THEN counts[s] ELSE 0

NewOwnership(systemId, optOwner, optPerms) ==
    [owner       |-> OrElse(optOwner, systemId),
     permissions |-> IF optPerms = NoPermissions THEN DefaultPermissions ELSE optPerms[1],
     delegates   |-> {},
     createdBy   |-> systemId]

RegisterEntityTable(eo, id, systemId, optOwner, optPerms) ==
    MapSet(eo, id, NewOwnership(systemId, optOwner, optPerms))

RegisterEntityCounts(counts, systemId) ==
    MapSet(counts, systemId, CountOf(counts, systemId) + 1)

UnregisterEntityTable(eo, id) ==
    IF HasRecord(eo, id) THEN MapDelete(eo, id) ELSE eo

UnregisterEntityCounts(eo, counts, id) ==
    IF HasRecord(eo, id) /\ CountOf(counts, eo[id].createdBy) > 0
    THEN MapSet(counts, eo[id].createdBy, CountOf(counts, eo[id].createdBy) - 1)
    ELSE counts

HasPermissionNoDelegateCheck(eo, id, systemId, permission) ==
    IF ~HasRecord(eo, id) THEN FALSE
    ELSE IF eo[id].owner = systemId THEN TRUE
    ELSE permission \in eo[id].permissions

HasPermission(eo, id, systemId, permission) ==
    IF ~HasRecord(eo, id) THEN FALSE
    ELSE IF eo[id].owner = systemId THEN TRUE
    ELSE IF systemId \in eo[id].delegates THEN permission \in eo[id].permissions
    ELSE FALSE

\* validateAccess throws when hasPermission is false.
ValidateAccessThrows(eo, id, systemId, permission) ==
    ~HasPermission(eo, id, systemId, permission)

GrantAccessThrowsAnyDelegate(eo, id, granter) ==
    \/ ~HasRecord(eo, id)
    \/ /\ eo[id].owner # granter
       /\ granter \notin eo[id].delegates

\* grantAccess throws: no record, or the granter is neither the owner nor a
\* delegate while DELEGATE is in the permission set.
GrantAccessThrows(eo, id, granter) ==
    \/ ~HasRecord(eo, id)
    \/ /\ eo[id].owner # granter
       /\ ~(granter \in eo[id].delegates /\ DELEGATE \in eo[id].permissions)

GrantAccessTableDelegateOnly(eo, id, targetSystem, permissions) ==
    [eo EXCEPT ![id].delegates = @ \cup {targetSystem}]

GrantAccessTable(eo, id, targetSystem, permissions) ==
    [eo EXCEPT ![id].delegates = @ \cup {targetSystem},
               ![id].permissions = @ \cup permissions]

RevokeAccessThrows(eo, id, revoker) ==
    \/ ~HasRecord(eo, id)
    \/ eo[id].owner # revoker

RevokeAccessTable(eo, id, targetSystem) ==
    [eo EXCEPT ![id].delegates = @ \ {targetSystem}]

TransferOwnershipThrows(eo, id, currentOwner) ==
    \/ ~HasRecord(eo, id)
    \/ eo[id].owner # currentOwner

TransferOwnershipTable(eo, id, newOwner) ==
    [eo EXCEPT ![id].owner = newOwner,
               ![id].delegates = @ \ {newOwner}]

(***************************************************************************)
(* Calls on the access-control table                                       *)
(***************************************************************************)

Call(op, id, caller, ok) == [op |-> op, entity |-> id, caller |-> caller, ok |-> ok]

NoCall == Call("none", 0, None, TRUE)

RegisterEntity(id, systemId, optOwner, optPerms) ==
    /\ entityOwnership' = RegisterEntityTable(entityOwnership, id, systemId, optOwner, optPerms)
    /\ systemEntityCounts' = RegisterEntityCounts(systemEntityCounts, systemId)
    /\ lastCall' = Call("register", id, systemId, TRUE)

UnregisterEntity(id) ==
    /\ entityOwnership' = UnregisterEntityTable(entityOwnership, id)
    /\ systemEntityCounts' = UnregisterEntityCounts(entityOwnership, systemEntityCounts, id)
    /\ lastCall' = Call("unregister", id, None, TRUE)

GrantAccess(id, granter, targetSystem, permissions) ==
    /\ IF GrantAccessThrows(entityOwnership, id, granter)
       THEN /\ UNCHANGED entityOwnership
            /\ lastCall' = Call("grant", id, granter, FALSE)
       ELSE /\ entityOwnership' = GrantAccessTable(entityOwnership, id, targetSystem, permissions)
            /\ lastCall' = Call("grant", id, granter, TRUE)
    /\ UNCHANGED systemEntityCounts

RevokeAccess(id, revoker, targetSystem) ==
    /\ IF RevokeAccessThrows(entityOwnership, id, revoker)
       THEN /\ UNCHANGED entityOwnership
            /\ lastCall' = Call("revoke", id, revoker, FALSE)
       ELSE /\ entityOwnership' = RevokeAccessTable(entityOwnership, id, targetSystem)
            /\ lastCall' = Call("revoke", id, revoker, TRUE)
    /\ UNCHANGED systemEntityCounts

TransferOwnership(id, currentOwner, newOwner) ==
    /\ IF TransferOwnershipThrows(entityOwnership, id, currentOwner)
       THEN /\ UNCHANGED entityOwnership
            /\ lastCall' = Call("transfer", id, currentOwner, FALSE)
       ELSE /\ entityOwnership' = TransferOwnershipTable(entityOwnership, id, newOwner)
            /\ lastCall' = Call("transfer", id, currentOwner, TRUE)
    /\ UNCHANGED systemEntityCounts

\* Bound on systemEntityCounts, which the code never caps.
MaxCount == 1

\* The access-control table as constructed.
AclIdle ==
    /\ entityOwnership = <<>>
    /\ systemEntityCounts = <<>>
    /\ lastCall = NoCall

\* The scheduler as constructed, no pass running.
SchedIdle ==
    /\ schedSystems = <<>>
    /\ executionOrder = <<>>
    /\ isRunning = FALSE
    /\ pc = "idle"
    /\ loopIndex = 0
    /\ tickLog = <<>>
    /\ frameCount = 0
    /\ progLocal = 0
    /\ progCaught = FALSE

\* The store and the registry as constructed.
CtxIdle ==
    /\ generations = <<>>
    /\ freeList = <<>>
    /\ entityComponents = <<>>
    /\ componentRegistrations = {}

\* The first id the dynamic registry hands out.
DynamicIdStart == 1000

\* No call made on the registries yet.
NoDefine == [op |-> "none", systemId |-> "none", name |-> "none", ok |-> TRUE]

\* The two registries as constructed, with no built-in type registered.
RegIdle ==
    /\ components = <<>>
    /\ staticIds = {}
    /\ nextId = 0
    /\ usedIds = {}
    /\ nextDynamicId = DynamicIdStart
    /\ hashedIdToRegistration = <<>>
    /\ systemComponents = <<>>
    /\ lastDefine = NoDefine
    /\ everDeclared = {}

\* The first id UserSystem hands out.
UserSystemFirstId == 1000

\* No load asked for yet.
NoLoad ==
    [op |-> "none", source |-> [name |-> "none"], stages |-> <<>>, ok |-> TRUE,
     name |-> <<>>]

\* The loader as constructed.
LoaderIdle ==
    /\ loadedSystems = <<>>
    /\ nextUserSystemId = UserSystemFirstId
    /\ lastLoad = NoLoad

\* The validator as constructed, with no source handed to it.
ValIdle ==
    /\ valSource = <<>>
    /\ valResult = "idle"

\* No emit made yet.
NoEmit ==
    [emitter |-> "none", eventType |-> "none",
     options |-> [targetSystems |-> {}, broadcast |-> FALSE],
     current |-> <<>>, invoked |-> <<>>, logged |-> <<>>, ok |-> TRUE]

\* The event system as constructed.
EvtIdle ==
    /\ subscriptions = <<>>
    /\ systemSubscriptions = <<>>
    /\ eventHistory = <<>>
    /\ nextSubscriptionId = 1
    /\ lastEmit = NoEmit

\* No call made on the world store yet.
NoStoreCall ==
    [op |-> "none", entity |-> [id |-> 0, generation |-> 0], ids |-> <<>>,
     component |-> 0, alive |-> TRUE, threw |-> FALSE, result |-> <<>>]

\* The world store as constructed.
StoreIdle ==
    /\ archetypeHeap = <<>>
    /\ archetypes = <<>>
    /\ archetypeList = <<>>
    /\ entityToArchetype = <<>>
    /\ maskBuild = "set"
    /\ lastStore = NoStoreCall

ServiceIdle == RegIdle /\ LoaderIdle /\ ValIdle /\ EvtIdle /\ StoreIdle

(***************************************************************************)
(* GasTracker                                                              *)
(***************************************************************************)

DefaultMaxGas == 10000

\* DEFAULT_GAS_CONFIG.gasCosts
DefaultGasCosts ==
    [entityQuery |-> 10, componentAccess |-> 1, componentUpdate |-> 2,
     entityCreate |-> 5, entityDestroy |-> 3, iteration |-> 1,
     defineComponent |-> 20, addComponent |-> 3, updateComponent |-> 2,
     removeComponent |-> 2, eventSubscribe |-> 5, eventEmit |-> 8,
     crossSystemCall |-> 15]

\* keyof GasConfig['gasCosts']
GasOperations == DOMAIN DefaultGasCosts

DefaultGasConfig == [maxGas |-> DefaultMaxGas, gasCosts |-> DefaultGasCosts]

\* definition.gasConfig as programs declare it: maxGas absent (<<>>) or given
\* (<<n>>), and a partial gasCosts table.
DeclaredMaxGas == {<<>>, <<4>>, <<10>>}

DeclaredGasCosts == {<<>>, [entityCreate |-> 15], [iteration |-> 2, componentAccess |-> 2]}

DeclaredGasConfigs == [maxGas : DeclaredMaxGas, gasCosts : DeclaredGasCosts]

\* { ...DEFAULT_GAS_CONFIG.gasCosts, ...definition.gasConfig?.gasCosts }
SpreadCosts(base, over) ==
    [k \in DOMAIN base |-> IF k \in DOMAIN over THEN over[k] ELSE base[k]]

\* UserSystem constructor: the declared gas config merged with the defaults
MergedGasConfig(declared) ==
    [maxGas   |-> IF declared.maxGas = <<>> THEN DefaultGasConfig.maxGas
                  ELSE declared.maxGas[1],
     gasCosts |-> SpreadCosts(DefaultGasConfig.gasCosts, declared.gasCosts)]

\* consumeGas's optional amount: absent (<<>>) or given (<<n>>).
AmountOptions == {<<>>, <<15>>}

\* const cost = amount ?? this.config.gasCosts[operation]
GasCost(config, operation, amount) ==
    IF amount = <<>> THEN config.gasCosts[operation] ELSE amount[1]

GasAfterChargedIfWithin(config, used, operation, amount) ==
    [used  |-> IF used + GasCost(config, operation, amount) > config.maxGas
               THEN used ELSE used + GasCost(config, operation, amount),
     threw |-> used + GasCost(config, operation, amount) > config.maxGas]

GasAfterAtLimitThrows(config, used, operation, amount) ==
    [used  |-> used + GasCost(config, operation, amount),
     threw |-> used + GasCost(config, operation, amount) >= config.maxGas]

\* consumeGas: the charge is added first, then compared with the budget.
GasAfter(config, used, operation, amount) ==
    [used  |-> used + GasCost(config, operation, amount),
     threw |-> used + GasCost(config, operation, amount) > config.maxGas]

GasLogEntry(config, used, operation, amount) ==
    [cost  |-> GasCost(config, operation, amount),
     total |-> GasAfter(config, used, operation, amount).used,
     threw |-> GasAfter(config, used, operation, amount).threw]

\* Bound on the number of consumeGas calls made on one ledger.
MaxGasCalls == 3

ConsumeGas(operation, amount) ==
    /\ Len(gasLog) < MaxGasCalls
    /\ gasUsed' = GasAfter(gasConfig, gasUsed, operation, amount).used
    /\ gasLog' = Append(gasLog, GasLogEntry(gasConfig, gasUsed, operation, amount))
    /\ UNCHANGED gasConfig

\* reset(): the ledger is fresh again
ResetGas ==
    /\ gasLog # <<>>
    /\ gasUsed' = 0
    /\ gasLog' = <<>>
    /\ UNCHANGED gasConfig

GasIdle ==
    /\ gasConfig = DefaultGasConfig
    /\ gasUsed = 0
    /\ gasLog = <<>>

GasInit ==
    /\ gasConfig \in {MergedGasConfig(d) : d \in DeclaredGasConfigs}
    /\ gasUsed = 0
    /\ gasLog = <<>>
    /\ AclIdle
    /\ SchedIdle
    /\ CtxIdle
    /\ ServiceIdle

GasConsume ==
    /\ \E op \in GasOperations, amount \in AmountOptions : ConsumeGas(op, amount)
    /\ UNCHANGED <<aclVars, schedVars, ctxVars, serviceVars>>

GasReset == ResetGas /\ UNCHANGED <<aclVars, schedVars, ctxVars, serviceVars>>

GasNext == GasConsume \/ GasReset

SpecGas == GasInit /\ [][GasNext]_vars

(***************************************************************************)
(* SystemScheduler, and the ticks of user programs under it                *)
(***************************************************************************)

\* SystemPriority.NORMAL and SystemPriority.USER
PriorityNormal == 50

PriorityUser == 1000

\* The priority the host registers each program with.
LoadPriority == [A |-> PriorityUser, B |-> PriorityUser, C |-> PriorityNormal]

\* definition.gasConfig of each loaded program.
ProgramGasConfig ==
    [A |-> [maxGas |-> <<6>>, gasCosts |-> <<>>],
     B |-> [maxGas |-> <<>>, gasCosts |-> <<>>],
     C |-> [maxGas |-> <<10>>, gasCosts |-> [entityCreate |-> 15]]]

\* The order localeCompare puts the names in.
NameRank == [A |-> 1, B |-> 2, C |-> 3]

\* addSystem's SystemInfo
SystemInfo(name, enabled) ==
    [priority |-> LoadPriority[name], enabled |-> enabled, executionCount |-> 0]

\* The comparator of updateExecutionOrder: priority first, then name.
SortsBefore(systems, a, b) ==
    \/ systems[a].priority < systems[b].priority
    \/ /\ systems[a].priority = systems[b].priority
       /\ NameRank[a] < NameRank[b]

\* updateExecutionOrder: the registered names, sorted.
UpdateExecutionOrder(systems) ==
    CHOOSE order \in [1..Cardinality(DOMAIN systems) -> DOMAIN systems] :
        \A i, j \in 1..Cardinality(DOMAIN systems) :
            i < j => SortsBefore(systems, order[i], order[j])

\* The context methods a tick calls, by the gas operation they charge.
TickOperations == {"componentAccess", "entityCreate"}

\* Bound on World.frameCount, which the code never caps.
MaxFrames == 2

CurrentSystem == executionOrder[loopIndex]

\* runSystems -> executeSystems, up to the for-of loop
SchedStartPass ==
    /\ pc = "idle"
    /\ frameCount < MaxFrames
    /\ IF isRunning
       THEN UNCHANGED <<isRunning, pc, loopIndex, tickLog>>
       ELSE /\ isRunning' = TRUE
            /\ pc' = "loop"
            /\ loopIndex' = 1
            /\ tickLog' = <<>>
    /\ UNCHANGED <<schedSystems, executionOrder, frameCount, progLocal, progCaught>>
    /\ UNCHANGED <<aclVars, gasVars, ctxVars, serviceVars>>

\* if (!systemInfo.enabled) continue
SchedSkipDisabled ==
    /\ pc = "loop"
    /\ loopIndex <= Len(executionOrder)
    /\ ~schedSystems[CurrentSystem].enabled
    /\ loopIndex' = loopIndex + 1
    /\ UNCHANGED <<schedSystems, executionOrder, isRunning, pc, tickLog, frameCount,
                   progLocal, progCaught>>
    /\ UNCHANGED <<aclVars, gasVars, ctxVars, serviceVars>>

\* systemInfo.system.execute(world, deltaTime): UserSystem.execute builds a
\* fresh GasTracker from the program's merged gas config and calls the
\* program's execute function.
SchedBeginTick ==
    /\ pc = "loop"
    /\ loopIndex <= Len(executionOrder)
    /\ schedSystems[CurrentSystem].enabled
    /\ pc' = "exec"
    /\ gasConfig' = MergedGasConfig(ProgramGasConfig[CurrentSystem])
    /\ gasUsed' = 0
    /\ gasLog' = <<>>
    /\ progLocal' = 0
    /\ progCaught' = FALSE
    /\ UNCHANGED <<schedSystems, executionOrder, isRunning, loopIndex, tickLog, frameCount>>
    /\ UNCHANGED <<aclVars, ctxVars, serviceVars>>

\* The loop is exhausted: finally { isRunning = false }, then frameCount++.
SchedEndPass ==
    /\ pc = "loop"
    /\ loopIndex > Len(executionOrder)
    /\ isRunning' = FALSE
    /\ pc' = "idle"
    /\ frameCount' = frameCount + 1
    /\ UNCHANGED <<schedSystems, executionOrder, loopIndex, tickLog, progLocal, progCaught>>
    /\ UNCHANGED <<aclVars, gasVars, ctxVars, serviceVars>>

TickEndsNoCatch(outcome) ==
    /\ tickLog' = Append(tickLog, [name |-> CurrentSystem, outcome |-> outcome])
    /\ IF outcome = "ok"
       THEN /\ schedSystems' = [schedSystems EXCEPT ![CurrentSystem].executionCount = @ + 1]
            /\ loopIndex' = loopIndex + 1
            /\ pc' = "loop"
            /\ UNCHANGED isRunning
       ELSE /\ isRunning' = FALSE
            /\ pc' = "idle"
            /\ UNCHANGED <<schedSystems, loopIndex>>
    /\ UNCHANGED <<executionOrder, frameCount>>

\* execute returned or threw into executeSystems: a throw is caught and
\* logged, the metrics are updated, and the loop goes on to the next name.
TickEnds(outcome) ==
    /\ tickLog' = Append(tickLog, [name |-> CurrentSystem, outcome |-> outcome])
    /\ schedSystems' = [schedSystems EXCEPT ![CurrentSystem].executionCount = @ + 1]
    /\ loopIndex' = loopIndex + 1
    /\ pc' = "loop"
    /\ UNCHANGED <<executionOrder, isRunning, frameCount>>

UserSystemExecuteSwallows(threw, catches) == FALSE

\* UserSystem.execute rethrows what the program's execute function lets out:
\* a throw of a context method that the program does not catch itself.
UserSystemExecuteThrows(threw, catches) == threw /\ ~catches

\* The program calls a context method, inside a try/catch of its own or not.
\* The method charges the ledger first; the charge throws or the method goes
\* on and returns.
ProgContextCall(operation, catches) ==
    /\ pc = "exec"
    /\ ConsumeGas(operation, <<>>)
    /\ IF UserSystemExecuteThrows(GasAfter(gasConfig, gasUsed, operation, <<>>).threw, catches)
       THEN /\ TickEnds("gas")
            /\ UNCHANGED <<progLocal, progCaught>>
       ELSE /\ progCaught' = (progCaught \/ (catches /\ GasAfter(gasConfig, gasUsed, operation, <<>>).threw))
            /\ UNCHANGED <<schedSystems, executionOrder, isRunning, pc, loopIndex,
                           tickLog, frameCount, progLocal>>
    /\ UNCHANGED <<aclVars, ctxVars, serviceVars>>

\* The program computes on its own: no context method, no charge.
ProgCompute ==
    /\ pc = "exec"
    /\ progLocal' = 1 - progLocal
    /\ UNCHANGED <<schedSystems, executionOrder, isRunning, pc, loopIndex, tickLog,
                   frameCount, progCaught>>
    /\ UNCHANGED <<aclVars, gasVars, ctxVars, serviceVars>>

\* The program's execute function returns.
ProgReturn ==
    /\ pc = "exec"
    /\ TickEnds("ok")
    /\ UNCHANGED <<progLocal, progCaught>>
    /\ UNCHANGED <<aclVars, gasVars, ctxVars, serviceVars>>

\* The program's execute function throws an error of its own.
ProgThrow ==
    /\ pc = "exec"
    /\ TickEnds("error")
    /\ UNCHANGED <<progLocal, progCaught>>
    /\ UNCHANGED <<aclVars, gasVars, ctxVars, serviceVars>>

\* Programs registered with the scheduler, some of them disabled by the host.
SchedInit ==
    /\ \E registered \in SUBSET Systems :
         \E enabled \in SUBSET registered :
            /\ schedSystems = [n \in registered |-> SystemInfo(n, n \in enabled)]
            /\ executionOrder = UpdateExecutionOrder(schedSystems)
    /\ isRunning = FALSE
    /\ pc = "idle"
    /\ loopIndex = 0
    /\ tickLog = <<>>
    /\ frameCount = 0
    /\ progLocal = 0
    /\ progCaught = FALSE
    /\ AclIdle
    /\ GasIdle
    /\ CtxIdle
    /\ ServiceIdle

ProgCall == \E op \in TickOperations, catches \in BOOLEAN : ProgContextCall(op, catches)

SchedNext ==
    \/ SchedStartPass
    \/ SchedSkipDisabled
    \/ SchedBeginTick
    \/ SchedEndPass
    \/ ProgCall
    \/ ProgCompute
    \/ ProgReturn
    \/ ProgThrow

SpecSched == SchedInit /\ [][SchedNext]_vars

\* The host keeps stepping: a pass that can advance does, and so does a
\* running program.  What a program does next is its own choice.
FairSpecSched == SpecSched /\ WF_vars(SchedNext)

(***************************************************************************)
(* The world store: EntityAllocator and the components of each entity      *)
(***************************************************************************)

\* Bounds on EntityAllocator.nextId, on a generation counter and on the
\* length of the free list, none of which the code caps.
MaxIds == 1

MaxGeneration == 1

MaxFree == 1

\* Entity handles a program can present: { id, generation }.
Handles == [id : 0..(MaxIds - 1), generation : 0..MaxGeneration]

\* EntityAllocator.isAlive (generations is indexed from 0 in the code)
IsAlive(gens, e) == e.id < Len(gens) /\ gens[e.id + 1] = e.generation

\* EntityAllocator.allocate: the entity it returns
AllocatedEntity(gens, free) ==
    IF free # <<>>
    THEN [id |-> free[Len(free)], generation |-> gens[free[Len(free)] + 1] + 1]
    ELSE [id |-> Len(gens), generation |-> 0]

GenerationsAfterAllocate(gens, free) ==
    IF free # <<>>
    THEN [gens EXCEPT ![free[Len(free)] + 1] = @ + 1]
    ELSE Append(gens, 0)

FreeListAfterAllocate(free) ==
    IF free # <<>> THEN SubSeq(free, 1, Len(free) - 1) ELSE free

\* allocate stays within the bounds
CanAllocate(gens, free) ==
    IF free # <<>>
    THEN gens[free[Len(free)] + 1] < MaxGeneration
    ELSE Len(gens) < MaxIds

\* World.createEntity
WorldCreateEntity ==
    /\ generations' = GenerationsAfterAllocate(generations, freeList)
    /\ freeList' = FreeListAfterAllocate(freeList)
    /\ UNCHANGED entityComponents

\* World.destroyEntity of an entity that isAlive: out of its archetype, id
\* pushed on the free list.
WorldDestroyEntity(e) ==
    /\ entityComponents' = IF e.id \in DOMAIN entityComponents
                           THEN MapDelete(entityComponents, e.id)
                           ELSE entityComponents
    /\ freeList' = Append(freeList, e.id)
    /\ UNCHANGED generations

ComponentsOf(ec, id) == IF id \in DOMAIN ec THEN ec[id] ELSE {}

\* World.addComponent on an entity that isAlive
WorldAddComponent(e, type) ==
    /\ entityComponents' = MapSet(entityComponents, e.id,
                                  ComponentsOf(entityComponents, e.id) \cup {type})
    /\ UNCHANGED <<generations, freeList>>

\* World.removeComponent on an entity that isAlive
WorldRemoveComponent(e, type) ==
    /\ entityComponents' =
          IF type \notin ComponentsOf(entityComponents, e.id) THEN entityComponents
          ELSE IF entityComponents[e.id] = {type} THEN MapDelete(entityComponents, e.id)
          ELSE MapSet(entityComponents, e.id, entityComponents[e.id] \ {type})
    /\ UNCHANGED <<generations, freeList>>

\* World.getComponent returns a component
WorldGetComponent(gens, ec, e, type) ==
    IsAlive(gens, e) /\ type \in ComponentsOf(ec, e.id)

\* World.hasComponent
WorldHasComponent(ec, e, type) == type \in ComponentsOf(ec, e.id)

\* world.query(...types).entities(): the entities of the archetypes that
\* hold every one of the types
WorldQuery(ec, types) == {id \in DOMAIN ec : types \subseteq ec[id]}

(***************************************************************************)
(* The capability contexts.  Each call below is made by a program in a     *)
(* tick of its own: UserSystem.execute hands the program a context over a  *)
(* fresh GasTracker built from the program's merged gas config.            *)
(***************************************************************************)

\* The programs that call context methods.
CtxSystems == {"A", "B"}

\* Component types of the static registry; definition.required of each
\* program names the ones its narrow context admits.
ComponentTypes == {"Pos", "Hp"}

Required == [A |-> {"Pos"}, B |-> {"Pos"}]

\* Component names programs use with the enhanced context, and the type a
\* name resolves to in a program's namespace of the dynamic registry.
ComponentNames == {"Pos"}

NamespacedType == [A |-> [Pos |-> "A.Pos"], B |-> [Pos |-> "B.Pos"]]

\* createEntity's options
CreateOptions ==
    {[owner |-> None, permissions |-> NoPermissions],
     [owner |-> None, permissions |-> <<{READ}>>]}

\* The permission arrays programs pass to grantAccess.
CtxGrantLists == {{READ}}

\* A context call: the method, the calling program, the steps the method
\* took in order ("gas": the ledger was charged; "access": an access check
\* was made; "store": the call went on to shared state), the entities it
\* read, changed or destroyed, and the permission such an access stands for.
CtxCall(method, caller, steps, touched, permission) ==
    [op |-> method, caller |-> caller, steps |-> steps, touched |-> touched,
     permission |-> permission]

\* new GasTracker(this.gasConfig), then consumeGas(operation)
Charge(s, operation) ==
    /\ gasConfig' = MergedGasConfig(ProgramGasConfig[s])
    /\ gasUsed' = GasAfter(MergedGasConfig(ProgramGasConfig[s]), 0, operation, <<>>).used
    /\ gasLog' = <<GasLogEntry(MergedGasConfig(ProgramGasConfig[s]), 0, operation, <<>>)>>

ChargeThrows(s, operation) ==
    GasAfter(MergedGasConfig(ProgramGasConfig[s]), 0, operation, <<>>).threw

\* new GasTracker(this.gasConfig), and no consumeGas call
NoCharge(s) ==
    /\ gasConfig' = MergedGasConfig(ProgramGasConfig[s])
    /\ gasUsed' = 0
    /\ gasLog' = <<>>

\* A validateComponentAccess that admits every component type
ValidateComponentAccessAdmitsAll(s, types) == FALSE

\* validateComponentAccess throws
ValidateComponentAccessThrows(s, types) == ~(types \subseteq Required[s])

worldVars == <<generations, freeList, entityComponents>>

tableVars == <<entityOwnership, systemEntityCounts>>

\* SystemContext.query(type), then entities() on the Query it returns
SystemContextQuery(s, type) ==
    /\ Charge(s, "entityQuery")
    /\ lastCall' =
          IF ChargeThrows(s, "entityQuery")
          THEN CtxCall("SystemContext.query", s, <<"gas">>, {}, READ)
          ELSE IF ValidateComponentAccessThrows(s, {type})
          THEN CtxCall("SystemContext.query", s, <<"gas", "access">>, {}, READ)
          ELSE CtxCall("SystemContext.query", s, <<"gas", "access", "store">>,
                       WorldQuery(entityComponents, {type}), READ)
    /\ UNCHANGED <<worldVars, componentRegistrations, tableVars>>

\* SystemContext.get
SystemContextGet(s, e, type) ==
    /\ Charge(s, "componentAccess")
    /\ lastCall' =
          IF ChargeThrows(s, "componentAccess")
          THEN CtxCall("SystemContext.get", s, <<"gas">>, {}, READ)
          ELSE IF ValidateComponentAccessThrows(s, {type})
          THEN CtxCall("SystemContext.get", s, <<"gas", "access">>, {}, READ)
          ELSE CtxCall("SystemContext.get", s, <<"gas", "access", "store">>,
                       IF WorldGetComponent(generations, entityComponents, e, type)
                       THEN {e.id} ELSE {}, READ)
    /\ UNCHANGED <<worldVars, componentRegistrations, tableVars>>

\* SystemContext.has
SystemContextHas(s, e, type) ==
    /\ Charge(s, "componentAccess")
    /\ lastCall' =
          IF ChargeThrows(s, "componentAccess")
          THEN CtxCall("SystemContext.has", s, <<"gas">>, {}, READ)
          ELSE IF ValidateComponentAccessThrows(s, {type})
          THEN CtxCall("SystemContext.has", s, <<"gas", "access">>, {}, READ)
          ELSE CtxCall("SystemContext.has", s, <<"gas", "access", "store">>,
                       IF WorldHasComponent(entityComponents, e, type)
                       THEN {e.id} ELSE {}, READ)
    /\ UNCHANGED <<worldVars, componentRegistrations, tableVars>>

\* SystemContext.update
SystemContextUpdate(s, e, type) ==
    /\ Charge(s, "componentUpdate")
    /\ IF ChargeThrows(s, "componentUpdate")
       THEN /\ lastCall' = CtxCall("SystemContext.update", s, <<"gas">>, {}, WRITE)
            /\ UNCHANGED worldVars
       ELSE IF ValidateComponentAccessThrows(s, {type})
       THEN /\ lastCall' = CtxCall("SystemContext.update", s, <<"gas", "access">>, {}, WRITE)
            /\ UNCHANGED worldVars
       ELSE IF ~IsAlive(generations, e)
       THEN /\ lastCall' = CtxCall("SystemContext.update", s, <<"gas", "access", "store">>,
                                      {}, WRITE)
            /\ UNCHANGED worldVars
       ELSE /\ lastCall' = CtxCall("SystemContext.update", s, <<"gas", "access", "store">>,
                                      {e.id}, WRITE)
            /\ WorldAddComponent(e, type)
    /\ UNCHANGED <<componentRegistrations, tableVars>>

\* SystemContext.createEntity
SystemContextCreateEntity(s) ==
    /\ Charge(s, "entityCreate")
    /\ IF ChargeThrows(s, "entityCreate")
       THEN /\ lastCall' = CtxCall("SystemContext.createEntity", s, <<"gas">>, {}, WRITE)
            /\ UNCHANGED worldVars
       ELSE /\ lastCall' = CtxCall("SystemContext.createEntity", s, <<"gas", "store">>,
                                      {}, WRITE)
            /\ WorldCreateEntity
    /\ UNCHANGED <<componentRegistrations, tableVars>>

\* SystemContext.destroyEntity
SystemContextDestroyEntity(s, e) ==
    /\ Charge(s, "entityDestroy")
    /\ IF ChargeThrows(s, "entityDestroy")
       THEN /\ lastCall' = CtxCall("SystemContext.destroyEntity", s, <<"gas">>, {}, DELETE)
            /\ UNCHANGED worldVars
       ELSE IF ~IsAlive(generations, e)
       THEN /\ lastCall' = CtxCall("SystemContext.destroyEntity", s, <<"gas", "store">>,
                                      {}, DELETE)
            /\ UNCHANGED worldVars
       ELSE /\ lastCall' = CtxCall("SystemContext.destroyEntity", s, <<"gas", "store">>,
                                      {e.id}, DELETE)
            /\ WorldDestroyEntity(e)
    /\ UNCHANGED <<componentRegistrations, tableVars>>

\* EnhancedSystemContext.createEntity
EnhancedCreateEntity(s, options) ==
    /\ Charge(s, "entityCreate")
    /\ IF ChargeThrows(s, "entityCreate")
       THEN /\ lastCall' = CtxCall("EnhancedSystemContext.createEntity", s, <<"gas">>, {}, WRITE)
            /\ UNCHANGED <<worldVars, tableVars>>
       ELSE /\ lastCall' = CtxCall("EnhancedSystemContext.createEntity", s, <<"gas", "store">>,
                                      {}, WRITE)
            /\ WorldCreateEntity
            /\ entityOwnership' =
                  RegisterEntityTable(entityOwnership, AllocatedEntity(generations, freeList).id,
                                      s, options.owner, options.permissions)
            /\ systemEntityCounts' = RegisterEntityCounts(systemEntityCounts, s)
    /\ UNCHANGED componentRegistrations

\* EnhancedSystemContext.deleteEntity: the record is unregistered before
\* world.destroyEntity finds the entity alive or throws.
EnhancedDeleteEntity(s, e) ==
    /\ Charge(s, "entityDestroy")
    /\ IF ChargeThrows(s, "entityDestroy")
       THEN /\ lastCall' = CtxCall("EnhancedSystemContext.deleteEntity", s, <<"gas">>, {}, DELETE)
            /\ UNCHANGED <<worldVars, tableVars>>
       ELSE IF ValidateAccessThrows(entityOwnership, e.id, s, DELETE)
       THEN /\ lastCall' = CtxCall("EnhancedSystemContext.deleteEntity", s, <<"gas", "access">>,
                                      {}, DELETE)
            /\ UNCHANGED <<worldVars, tableVars>>
       ELSE /\ lastCall' = CtxCall("EnhancedSystemContext.deleteEntity", s,
                                      <<"gas", "access", "store">>, {e.id}, DELETE)
            /\ entityOwnership' = UnregisterEntityTable(entityOwnership, e.id)
            /\ systemEntityCounts' =
                  UnregisterEntityCounts(entityOwnership, systemEntityCounts, e.id)
            /\ IF IsAlive(generations, e)
               THEN WorldDestroyEntity(e)
               ELSE UNCHANGED worldVars
    /\ UNCHANGED componentRegistrations

\* EnhancedSystemContext.defineComponent: the registry refuses a name the
\* program has defined already (the same schema version).
EnhancedDefineComponent(s, name) ==
    /\ Charge(s, "defineComponent")
    /\ IF ChargeThrows(s, "defineComponent")
       THEN /\ lastCall' = CtxCall("EnhancedSystemContext.defineComponent", s, <<"gas">>, {}, WRITE)
            /\ UNCHANGED componentRegistrations
       ELSE /\ lastCall' = CtxCall("EnhancedSystemContext.defineComponent", s, <<"gas", "store">>,
                                      {}, WRITE)
            /\ componentRegistrations' = componentRegistrations \cup {<<s, name>>}
    /\ UNCHANGED <<worldVars, tableVars>>

\* EnhancedSystemContext.addComponent and updateComponent, which differ in
\* the gas operation only.
EnhancedAddComponent(s, operation, e, name) ==
    /\ Charge(s, operation)
    /\ IF ChargeThrows(s, operation)
       THEN /\ lastCall' = CtxCall(operation, s, <<"gas">>, {}, WRITE)
            /\ UNCHANGED worldVars
       ELSE IF ValidateAccessThrows(entityOwnership, e.id, s, WRITE)
       THEN /\ lastCall' = CtxCall(operation, s, <<"gas", "access">>, {}, WRITE)
            /\ UNCHANGED worldVars
       ELSE IF <<s, name>> \notin componentRegistrations \/ ~IsAlive(generations, e)
       THEN /\ lastCall' = CtxCall(operation, s,
                                      <<"gas", "access", "store">>, {}, WRITE)
            /\ UNCHANGED worldVars
       ELSE /\ lastCall' = CtxCall(operation, s,
                                      <<"gas", "access", "store">>, {e.id}, WRITE)
            /\ WorldAddComponent(e, NamespacedType[s][name])
    /\ UNCHANGED <<componentRegistrations, tableVars>>

\* EnhancedSystemContext.removeComponent
EnhancedRemoveComponent(s, e, name) ==
    /\ Charge(s, "removeComponent")
    /\ IF ChargeThrows(s, "removeComponent")
       THEN /\ lastCall' = CtxCall("EnhancedSystemContext.removeComponent", s, <<"gas">>, {}, WRITE)
            /\ UNCHANGED worldVars
       ELSE IF ValidateAccessThrows(entityOwnership, e.id, s, WRITE)
       THEN /\ lastCall' = CtxCall("EnhancedSystemContext.removeComponent", s, <<"gas", "access">>,
                                      {}, WRITE)
            /\ UNCHANGED worldVars
       ELSE IF <<s, name>> \notin componentRegistrations \/ ~IsAlive(generations, e)
       THEN /\ lastCall' = CtxCall("EnhancedSystemContext.removeComponent", s,
                                      <<"gas", "access", "store">>, {}, WRITE)
            /\ UNCHANGED worldVars
       ELSE /\ lastCall' = CtxCall("EnhancedSystemContext.removeComponent", s,
                                      <<"gas", "access", "store">>, {e.id}, WRITE)
            /\ WorldRemoveComponent(e, NamespacedType[s][name])
    /\ UNCHANGED <<componentRegistrations, tableVars>>

\* EnhancedSystemContext.getComponent
EnhancedGetComponent(s, e, name) ==
    /\ Charge(s, "componentAccess")
    /\ lastCall' =
          IF ChargeThrows(s, "componentAccess")
          THEN CtxCall("EnhancedSystemContext.getComponent", s, <<"gas">>, {}, READ)
          ELSE IF ValidateAccessThrows(entityOwnership, e.id, s, READ)
          THEN CtxCall("EnhancedSystemContext.getComponent", s, <<"gas", "access">>, {}, READ)
          ELSE CtxCall("EnhancedSystemContext.getComponent", s, <<"gas", "access", "store">>,
                       IF /\ <<s, name>> \in componentRegistrations
                          /\ WorldGetComponent(generations, entityComponents, e,
                                               NamespacedType[s][name])
                       THEN {e.id} ELSE {}, READ)
    /\ UNCHANGED <<worldVars, componentRegistrations, tableVars>>

\* EnhancedSystemContext.grantAccess
EnhancedGrantAccess(s, e, targetSystemId, permissions) ==
    /\ NoCharge(s)
    /\ lastCall' =
          IF GrantAccessThrows(entityOwnership, e.id, s)
          THEN CtxCall("EnhancedSystemContext.grantAccess", s, <<"access">>, {}, DELEGATE)
          ELSE CtxCall("EnhancedSystemContext.grantAccess", s, <<"access", "store">>, {}, DELEGATE)
    /\ entityOwnership' =
          IF GrantAccessThrows(entityOwnership, e.id, s) THEN entityOwnership
          ELSE GrantAccessTable(entityOwnership, e.id, targetSystemId, permissions)
    /\ UNCHANGED systemEntityCounts
    /\ UNCHANGED <<worldVars, componentRegistrations>>

\* EnhancedSystemContext.transferOwnership
EnhancedTransferOwnership(s, e, newOwner) ==
    /\ NoCharge(s)
    /\ lastCall' =
          IF TransferOwnershipThrows(entityOwnership, e.id, s)
          THEN CtxCall("EnhancedSystemContext.transferOwnership", s, <<"access">>, {}, TRANSFER)
          ELSE CtxCall("EnhancedSystemContext.transferOwnership", s, <<"access", "store">>, {}, TRANSFER)
    /\ entityOwnership' =
          IF TransferOwnershipThrows(entityOwnership, e.id, s) THEN entityOwnership
          ELSE TransferOwnershipTable(entityOwnership, e.id, newOwner)
    /\ UNCHANGED systemEntityCounts
    /\ UNCHANGED <<worldVars, componentRegistrations>>

\* The component types EnhancedQueryBuilder.execute resolves a name to: the
\* caller's namespaced type, else the static type of that name.
ResolvedTypes(regs, s, name) ==
    IF <<s, name>> \in regs THEN {NamespacedType[s][name]}
    ELSE IF name \in ComponentTypes THEN {name}
    ELSE {}

\* entityAccessControl.getReadableEntities
GetReadableEntities(eo, s) ==
    {id \in DOMAIN eo :
        \/ eo[id].owner = s
        \/ s \in eo[id].delegates /\ READ \in eo[id].permissions}

\* EnhancedSystemContext.query([name]), then execute() on the builder it
\* returns, with or without readableBy(...) set on the builder.
EnhancedQuery(s, name, readableBy) ==
    /\ Charge(s, "entityQuery")
    /\ lastCall' =
          IF ChargeThrows(s, "entityQuery")
          THEN CtxCall("EnhancedSystemContext.query", s, <<"gas">>, {}, READ)
          ELSE CtxCall("EnhancedSystemContext.query", s, <<"gas", "store">>,
                       IF readableBy = None
                       THEN WorldQuery(entityComponents,
                                       ResolvedTypes(componentRegistrations, s, name))
                       ELSE WorldQuery(entityComponents,
                                       ResolvedTypes(componentRegistrations, s, name))
                            \cap GetReadableEntities(entityOwnership, readableBy),
                       READ)
    /\ UNCHANGED <<worldVars, componentRegistrations, tableVars>>

(***************************************************************************)
(* Specification SpecCtx: programs calling the methods of both contexts    *)
(***************************************************************************)

CtxInit == AclIdle /\ GasIdle /\ SchedIdle /\ CtxIdle /\ ServiceIdle

CtxNarrowQuery ==
    /\ \E s \in CtxSystems, t \in ComponentTypes : SystemContextQuery(s, t)
    /\ UNCHANGED <<schedVars, serviceVars>>

CtxNarrowGet ==
    /\ \E s \in CtxSystems, e \in Handles, t \in ComponentTypes : SystemContextGet(s, e, t)
    /\ UNCHANGED <<schedVars, serviceVars>>

CtxNarrowHas ==
    /\ \E s \in CtxSystems, e \in Handles, t \in ComponentTypes : SystemContextHas(s, e, t)
    /\ UNCHANGED <<schedVars, serviceVars>>

CtxNarrowUpdate ==
    /\ \E s \in CtxSystems, e \in Handles, t \in ComponentTypes : SystemContextUpdate(s, e, t)
    /\ UNCHANGED <<schedVars, serviceVars>>

CtxNarrowCreateEntity ==
    /\ CanAllocate(generations, freeList)
    /\ \E s \in CtxSystems : SystemContextCreateEntity(s)
    /\ UNCHANGED <<schedVars, serviceVars>>

CtxNarrowDestroyEntity ==
    /\ Len(freeList) < MaxFree
    /\ \E s \in CtxSystems, e \in Handles : SystemContextDestroyEntity(s, e)
    /\ UNCHANGED <<schedVars, serviceVars>>

CtxEnhancedCreateEntity ==
    /\ CanAllocate(generations, freeList)
    /\ \E s \in CtxSystems, o \in CreateOptions :
          /\ CountOf(systemEntityCounts, s) < MaxCount
          /\ EnhancedCreateEntity(s, o)
    /\ UNCHANGED <<schedVars, serviceVars>>

CtxEnhancedDeleteEntity ==
    /\ Len(freeList) < MaxFree
    /\ \E s \in CtxSystems, e \in Handles : EnhancedDeleteEntity(s, e)
    /\ UNCHANGED <<schedVars, serviceVars>>

CtxEnhancedDefineComponent ==
    /\ \E s \in CtxSystems, n \in ComponentNames :
          /\ <<s, n>> \notin componentRegistrations
          /\ EnhancedDefineComponent(s, n)
    /\ UNCHANGED <<schedVars, serviceVars>>

CtxEnhancedAddComponent ==
    /\ \E s \in CtxSystems, op \in {"addComponent", "updateComponent"},
          e \in Handles, n \in ComponentNames : EnhancedAddComponent(s, op, e, n)
    /\ UNCHANGED <<schedVars, serviceVars>>

CtxEnhancedRemoveComponent ==
    /\ \E s \in CtxSystems, e \in Handles, n \in ComponentNames :
          EnhancedRemoveComponent(s, e, n)
    /\ UNCHANGED <<schedVars, serviceVars>>

CtxEnhancedGetComponent ==
    /\ \E s \in CtxSystems, e \in Handles, n \in ComponentNames :
          EnhancedGetComponent(s, e, n)
    /\ UNCHANGED <<schedVars, serviceVars>>

CtxEnhancedGrantAccess ==
    /\ \E s \in CtxSystems, e \in Handles, t \in CtxSystems, ps \in CtxGrantLists :
          EnhancedGrantAccess(s, e, t, ps)
    /\ UNCHANGED <<schedVars, serviceVars>>

CtxEnhancedTransferOwnership ==
    /\ \E s \in CtxSystems, e \in Handles, n \in CtxSystems :
          EnhancedTransferOwnership(s, e, n)
    /\ UNCHANGED <<schedVars, serviceVars>>

CtxEnhancedQuery ==
    /\ \E s \in CtxSystems, n \in ComponentNames :
          \E r \in {None, s} : EnhancedQuery(s, n, r)
    /\ UNCHANGED <<schedVars, serviceVars>>

CtxNext ==
    \/ CtxNarrowQuery
    \/ CtxNarrowGet
    \/ CtxNarrowHas
    \/ CtxNarrowUpdate
    \/ CtxNarrowCreateEntity
    \/ CtxNarrowDestroyEntity
    \/ CtxEnhancedCreateEntity
    \/ CtxEnhancedDeleteEntity
    \/ CtxEnhancedDefineComponent
    \/ CtxEnhancedAddComponent
    \/ CtxEnhancedRemoveComponent
    \/ CtxEnhancedGetComponent
    \/ CtxEnhancedGrantAccess
    \/ CtxEnhancedTransferOwnership
    \/ CtxEnhancedQuery

SpecCtx == CtxInit /\ [][CtxNext]_vars

(***************************************************************************)
(* Specification SpecAcl: calls on the access-control table, in any order  *)
(***************************************************************************)

AclInit == AclIdle /\ GasIdle /\ SchedIdle /\ CtxIdle /\ ServiceIdle

AclRegister ==
    \E id \in EntityIds, s \in Systems, o \in OwnerOptions, p \in PermissionOptions :
        /\ CountOf(systemEntityCounts, s) < MaxCount
        /\ RegisterEntity(id, s, o, p)
        /\ UNCHANGED <<gasVars, schedVars, ctxVars, serviceVars>>

AclUnregister ==
    /\ \E id \in EntityIds : UnregisterEntity(id)
    /\ UNCHANGED <<gasVars, schedVars, ctxVars, serviceVars>>

AclGrant ==
    \E id \in EntityIds, g \in Systems, t \in Systems, ps \in GrantLists :
        /\ GrantAccess(id, g, t, ps)
        /\ UNCHANGED <<gasVars, schedVars, ctxVars, serviceVars>>

AclRevoke ==
    /\ \E id \in EntityIds, r \in Systems, t \in Systems : RevokeAccess(id, r, t)
    /\ UNCHANGED <<gasVars, schedVars, ctxVars, serviceVars>>

AclTransfer ==
    /\ \E id \in EntityIds, c \in Systems, n \in Systems : TransferOwnership(id, c, n)
    /\ UNCHANGED <<gasVars, schedVars, ctxVars, serviceVars>>

AclNext == AclRegister \/ AclUnregister \/ AclGrant \/ AclRevoke \/ AclTransfer

SpecAcl == AclInit /\ [][AclNext]_vars

(***************************************************************************)
(* The component registries: the static ComponentRegistry, which numbers   *)
(* every type registered with it from 0, and the DynamicComponentRegistry, *)
(* which namespaces the types programs declare and numbers them from       *)
(* DynamicIdStart.                                                         *)
(***************************************************************************)

\* The programs that declare component types, and the names they use.
RegSystems == {"A", "B"}

RegNames == {"Pos"}

\* A schema's version is a JavaScript number: <<n>> is the number n and
\* <<>> is NaN, which passes `typeof version === 'number'`.
NaN == <<>>

SchemaVersions == {<<1>>, <<2>>, NaN}

\* `a < b` and `a <= b` on JavaScript numbers: false when either is NaN
JsLess(a, b) == a # NaN /\ b # NaN /\ a[1] < b[1]

JsLessEq(a, b) == a # NaN /\ b # NaN /\ a[1] <= b[1]

\* The schemas programs pass: a version, and whether the fields,
\* constraints and size cap pass validateSchema's other checks.
Schemas == [version : SchemaVersions, wellFormed : BOOLEAN]

\* ComponentSchemaValidator.validateSchema throws
ValidateSchemaThrows(schema) == JsLess(schema.version, <<1>>) \/ ~schema.wellFormed

\* A createHashedId that leaves the declaring program out
CreateHashedIdNoNamespace(systemId, componentName) == componentName

\* createHashedId: the digest's input; sha256 is taken to be free of
\* collisions on the inputs of the model.
CreateHashedId(systemId, componentName) == systemId \o ":" \o componentName

\* The ids of the types held by the static registry: getAllTypes().map(id).
\* A dynamic type carries the dynamic id written over its static one.
AllTypeIds(comps, statics) == statics \cup {comps[h] : h \in DOMAIN comps}

\* refreshStaticComponentIds: usedIds afterwards
RefreshStaticComponentIds(used, comps, statics) ==
    {id \in used : id >= DynamicIdStart} \cup AllTypeIds(comps, statics)

\* reserveComponentId: usedIds afterwards
ReserveComponentId(used, componentId) == used \cup {componentId}

\* allocateComponentId: the id its while loop stops at
AllocateComponentId(used, next) ==
    CHOOSE n \in next..(next + Cardinality(used)) :
        /\ n \notin used
        /\ \A k \in next..(n - 1) : k \in used

\* A call on the registries and whether it returned (ok) or threw.
Define(op, systemId, name, ok) ==
    [op |-> op, systemId |-> systemId, name |-> name, ok |-> ok]

\* ComponentRegistry.register of a built-in type under a new name
RegisterStatic ==
    /\ staticIds' = staticIds \cup {nextId}
    /\ nextId' = nextId + 1
    /\ usedIds' = ReserveComponentId(usedIds, nextId)
    /\ lastDefine' = Define("register", "none", "none", TRUE)
    /\ UNCHANGED <<components, nextDynamicId, hashedIdToRegistration,
                   systemComponents, componentRegistrations, everDeclared>>

\* DynamicComponentRegistry.defineComponent
DefineComponent(name, schema, systemId) ==
    LET hashedId == CreateHashedId(systemId, name)
        refreshed == RefreshStaticComponentIds(usedIds, components, staticIds)
        componentId == AllocateComponentId(refreshed, nextDynamicId)
        registration == [id |-> componentId, hashedId |-> hashedId,
                         originalName |-> name, systemId |-> systemId,
                         version |-> schema.version]
    IN  IF ValidateSchemaThrows(schema)
        THEN /\ lastDefine' = Define("defineComponent", systemId, name, FALSE)
             /\ UNCHANGED <<components, staticIds, nextId, usedIds, nextDynamicId,
                            hashedIdToRegistration, systemComponents,
                            componentRegistrations, everDeclared>>
        ELSE IF hashedId \in DOMAIN hashedIdToRegistration
        THEN IF /\ hashedIdToRegistration[hashedId].systemId = systemId
                /\ ~JsLessEq(schema.version, hashedIdToRegistration[hashedId].version)
             THEN /\ hashedIdToRegistration' =
                       [hashedIdToRegistration EXCEPT ![hashedId].version = schema.version]
                  /\ lastDefine' = Define("defineComponent", systemId, name, TRUE)
                  /\ UNCHANGED <<components, staticIds, nextId, usedIds, nextDynamicId,
                                 systemComponents, componentRegistrations, everDeclared>>
             ELSE /\ lastDefine' = Define("defineComponent", systemId, name, FALSE)
                  /\ UNCHANGED <<components, staticIds, nextId, usedIds, nextDynamicId,
                                 hashedIdToRegistration, systemComponents,
                                 componentRegistrations, everDeclared>>
        ELSE IF hashedId \in DOMAIN components
        \* componentRegistry.register throws: the id stays allocated
        THEN /\ usedIds' = refreshed \cup {componentId}
             /\ nextDynamicId' = componentId + 1
             /\ lastDefine' = Define("defineComponent", systemId, name, FALSE)
             /\ UNCHANGED <<components, staticIds, nextId, hashedIdToRegistration,
                            systemComponents, componentRegistrations, everDeclared>>
        ELSE /\ usedIds' = ReserveComponentId(refreshed \cup {componentId}, nextId)
             /\ nextDynamicId' = componentId + 1
             /\ nextId' = nextId + 1
             /\ components' = MapSet(components, hashedId, componentId)
             /\ hashedIdToRegistration' =
                   MapSet(hashedIdToRegistration, hashedId, registration)
             /\ componentRegistrations' = componentRegistrations \cup {<<systemId, name>>}
             /\ systemComponents' =
                   MapSet(systemComponents, systemId,
                          (IF systemId \in DOMAIN systemComponents
                           THEN systemComponents[systemId] ELSE {}) \cup {componentId})
             /\ everDeclared' = everDeclared \cup {<<systemId, name>>}
             /\ lastDefine' = Define("defineComponent", systemId, name, TRUE)
             /\ UNCHANGED staticIds

\* The registrations removeSystemComponents removes: those holding an id of
\* the program's
RemovedRegistrations(systemId) ==
    {h \in DOMAIN hashedIdToRegistration :
        hashedIdToRegistration[h].id \in systemComponents[systemId]}

\* DynamicComponentRegistry.removeSystemComponents
RemoveSystemComponents(systemId) ==
    /\ lastDefine' = Define("removeSystemComponents", systemId, "none", TRUE)
    /\ IF systemId \notin DOMAIN systemComponents
       THEN UNCHANGED <<usedIds, hashedIdToRegistration, systemComponents,
                        componentRegistrations>>
       ELSE /\ componentRegistrations' =
                  componentRegistrations \
                     {<<systemId, hashedIdToRegistration[h].originalName>> :
                         h \in RemovedRegistrations(systemId)}
            /\ hashedIdToRegistration' =
                  [h \in DOMAIN hashedIdToRegistration \ RemovedRegistrations(systemId)
                      |-> hashedIdToRegistration[h]]
            /\ usedIds' = usedIds \ {hashedIdToRegistration[h].id :
                                        h \in RemovedRegistrations(systemId)}
            /\ systemComponents' = MapDelete(systemComponents, systemId)
    /\ UNCHANGED <<components, staticIds, nextId, nextDynamicId, everDeclared>>

\* getComponentId: the id, or nothing
GetComponentId(name, systemId) ==
    IF <<systemId, name>> \in componentRegistrations
          /\ CreateHashedId(systemId, name) \in DOMAIN hashedIdToRegistration
    THEN <<hashedIdToRegistration[CreateHashedId(systemId, name)].id>>
    ELSE <<>>

\* getComponentType: the id of the type, or nothing
GetComponentType(name, systemId) ==
    IF CreateHashedId(systemId, name) \in DOMAIN components
    THEN <<components[CreateHashedId(systemId, name)]>>
    ELSE <<>>

(***************************************************************************)
(* Specification SpecReg: built-in registrations, declarations by          *)
(* programs and removals of a program's types, in any order                *)
(***************************************************************************)

\* How many built-in types the static registry holds when the dynamic
\* registry is constructed.
StaticAtStart == {0, 2, DynamicIdStart - 1}

\* Built-in types registered later, and ids the dynamic registry hands out.
MaxStatic == 2

MaxDynamic == 3

RegInit ==
    /\ AclIdle /\ GasIdle /\ SchedIdle /\ CtxIdle /\ LoaderIdle /\ ValIdle /\ EvtIdle
    /\ StoreIdle
    /\ \E n \in StaticAtStart :
          /\ staticIds = 0..(n - 1)
          /\ nextId = n
          /\ usedIds = 0..(n - 1)
    /\ components = <<>>
    /\ nextDynamicId = DynamicIdStart
    /\ hashedIdToRegistration = <<>>
    /\ systemComponents = <<>>
    /\ lastDefine = NoDefine
    /\ everDeclared = {}

RegFrame ==
    UNCHANGED <<aclVars, gasVars, schedVars, worldVars, loadVars, valVars, evtVars,
                storeVars>>

RegRegisterStatic ==
    /\ \E n \in StaticAtStart :
          n <= Cardinality(staticIds) /\ Cardinality(staticIds) < n + MaxStatic
    /\ RegisterStatic
    /\ RegFrame

RegDefineComponent ==
    /\ nextDynamicId < DynamicIdStart + MaxDynamic
    /\ \E s \in RegSystems, name \in RegNames, schema \in Schemas :
          DefineComponent(name, schema, s)
    /\ RegFrame

RegRemoveSystemComponents ==
    /\ \E s \in RegSystems : RemoveSystemComponents(s)
    /\ RegFrame

RegNext == RegRegisterStatic \/ RegDefineComponent \/ RegRemoveSystemComponents

SpecReg == RegInit /\ [][RegNext]_vars

(***************************************************************************)
(* The source loader: SystemLoader.loadFromSource takes a source through   *)
(* its stages and caches the program under a generated name, and           *)
(* World.loadSystemFromSource hands the loaded program to the scheduler.   *)
(***************************************************************************)

\* What the stages see in a source: whether it parses, whether it is longer
\* than maxSourceLength, whether its text holds a call of a blocked
\* nondeterministic API (Math.random, Date.now, new Date), whether its text
\* stripped of comments and strings holds a dangerous keyword, whether it
\* transpiles, whether its run in the sandbox returns, whether what it
\* returns is an object with an execute function, the name it declares and
\* the record types it passes to defineSystem as `required`.
AllSources ==
    [parses : BOOLEAN, tooLong : BOOLEAN, blockedApi : BOOLEAN,
     dangerousKeyword : BOOLEAN, transpiles : BOOLEAN, runs : BOOLEAN,
     exportsDefinition : BOOLEAN, name : {"P"}, required : {{}, {"Pos"}}]

Flaws(source) ==
    {f \in {"parses", "transpiles", "runs", "exportsDefinition"} : ~source[f]}
    \cup {f \in {"tooLong", "blockedApi", "dangerousKeyword"} : source[f]}

\* The sources submitted: the flawless one, those with one flaw, and the
\* one with a blocked call that does not parse either.
Sources ==
    {source \in AllSources :
        /\ \/ Cardinality(Flaws(source)) <= 1
           \/ Flaws(source) = {"parses", "blockedApi"}
        /\ Flaws(source) # {} => source.required = {"Pos"}}

\* Date.now() and Math.floor(Math.random() * 10000) as load sees them.
Timestamps == {1, 2}

Randoms == {0, 1}

\* deploymentOptions: nothing, a uniqueId or an instanceSuffix
NoOptions == [uniqueId |-> <<>>, instanceSuffix |-> <<>>]

DeploymentOptions ==
    {NoOptions,
     [uniqueId |-> <<"x">>, instanceSuffix |-> <<>>],
     [uniqueId |-> <<>>, instanceSuffix |-> <<"s">>]}

\* random.toString().padStart(4, '0')
PadStart4(n) ==
    IF n < 10 THEN "000" \o ToString(n)
    ELSE IF n < 100 THEN "00" \o ToString(n)
    ELSE IF n < 1000 THEN "0" \o ToString(n)
    ELSE ToString(n)

\* generateUniqueSystemId
GenerateUniqueSystemId(originalName, options, timestamp, random) ==
    IF options.uniqueId # <<>>
    THEN originalName \o "_" \o options.uniqueId[1]
    ELSE IF options.instanceSuffix # <<>>
    THEN originalName \o "_" \o options.instanceSuffix[1] \o "_" \o ToString(timestamp)
    ELSE originalName \o "_" \o ToString(timestamp) \o "_" \o PadStart4(random)

\* result.name || 'UnnamedSystem'
OriginalName(source) == IF source.name = "" THEN "UnnamedSystem" ELSE source.name

\* new UserSystem(definition): componentTypes is definition.required; the
\* object has the fields name, id, componentTypes, definition and gasConfig
\* and the methods execute, init and cleanup
UserSystem(definition) ==
    [name |-> definition.name, componentTypes |-> definition.required,
     definition |-> definition]

\* defineSystem(name, definition) as the sandbox hands it to the source
DefineSystem(name, definition) == UserSystem([name |-> name] @@ definition)

\* What the wrapped source returns: the object its defineSystem call made
CapturedSystem(source) == DefineSystem(source.name, [required |-> source.required])

\* result.required || []
ResultRequired(result) ==
    IF "required" \in DOMAIN result THEN result.required ELSE {}

\* The componentTypes of the UserSystem loadFromSource makes from the result
LoadedComponentTypes(source) ==
    UserSystem([name |-> OriginalName(source),
                required |-> ResultRequired(CapturedSystem(source))]).componentTypes

\* A validateSource that looks at the length only
ValidateSourceThrowsLengthOnly(source) == source.tooLong

\* SecurityValidator.validateSource throws
ValidateSourceThrows(source) ==
    source.tooLong \/ source.blockedApi \/ source.dangerousKeyword

\* The stages loadFromSource goes through, in order, up to the one that
\* throws; the last stage of a load that goes through is "register".
StagesOf(source) ==
    IF ~source.parses THEN <<"syntax">>
    ELSE IF ValidateSourceThrows(source) THEN <<"syntax", "security">>
    ELSE IF ~source.transpiles THEN <<"syntax", "security", "wrap", "compile">>
    ELSE IF ~source.runs THEN <<"syntax", "security", "wrap", "compile", "sandbox">>
    ELSE IF ~source.exportsDefinition
    THEN <<"syntax", "security", "wrap", "compile", "sandbox", "capture">>
    ELSE <<"syntax", "security", "wrap", "compile", "sandbox", "capture", "identify",
           "register">>

LoadFromSourceThrows(source) == StagesOf(source)[Len(StagesOf(source))] # "register"

\* A load: the method, the source, the stages gone through, whether the
\* call returned, and the deployment name if one was computed.
Load(method, source, stages, ok, name) ==
    [op |-> method, source |-> source, stages |-> stages, ok |-> ok, name |-> name]

\* The order localeCompare puts the deployment names in.
DeploymentNameOrder ==
    <<"P_1_0000", "P_1_0001", "P_2_0000", "P_2_0001", "P_s_1", "P_s_2", "P_x">>

DeploymentNameRank(name) ==
    CHOOSE i \in 1..Len(DeploymentNameOrder) : DeploymentNameOrder[i] = name

\* updateExecutionOrder over deployment names: priority first, then name
DeploymentOrder(systems) ==
    CHOOSE order \in [1..Cardinality(DOMAIN systems) -> DOMAIN systems] :
        \A i, j \in 1..Cardinality(DOMAIN systems) :
            i < j => \/ systems[order[i]].priority < systems[order[j]].priority
                     \/ /\ systems[order[i]].priority = systems[order[j]].priority
                        /\ DeploymentNameRank(order[i]) < DeploymentNameRank(order[j])

\* SystemLoader.loadFromSource: the cache afterwards
LoaderLoad(method, source, options, timestamp, random) ==
    LET name == GenerateUniqueSystemId(OriginalName(source), options, timestamp,
                                       random)
    IN  IF LoadFromSourceThrows(source)
        THEN /\ lastLoad' = Load(method, source, StagesOf(source), FALSE, <<>>)
             /\ UNCHANGED <<loadedSystems, nextUserSystemId>>
        ELSE /\ loadedSystems' =
                   MapSet(loadedSystems, name,
                          [id |-> nextUserSystemId, originalName |-> OriginalName(source),
                           componentTypes |-> LoadedComponentTypes(source)])
             /\ nextUserSystemId' = nextUserSystemId + 1
             /\ lastLoad' = Load(method, source, StagesOf(source), TRUE, <<name>>)

\* SystemLoader.loadFromSource called by the host
LoadFromSource(source, options, timestamp, random) ==
    /\ LoaderLoad("SystemLoader.loadFromSource", source, options, timestamp, random)
    /\ UNCHANGED <<schedSystems, executionOrder>>

\* World.loadSystemFromSource: loadFromSource without options, then
\* addSystem, which throws on a name the scheduler holds
LoadSystemFromSource(source, timestamp, random) ==
    LET name == GenerateUniqueSystemId(OriginalName(source), NoOptions, timestamp,
                                       random)
    IN  IF LoadFromSourceThrows(source)
        THEN /\ LoaderLoad("World.loadSystemFromSource", source, NoOptions,
                           timestamp, random)
             /\ UNCHANGED <<schedSystems, executionOrder>>
        ELSE /\ loadedSystems' =
                   MapSet(loadedSystems, name,
                          [id |-> nextUserSystemId, originalName |-> OriginalName(source),
                           componentTypes |-> LoadedComponentTypes(source)])
             /\ nextUserSystemId' = nextUserSystemId + 1
             /\ IF name \in DOMAIN schedSystems
                THEN /\ lastLoad' = Load("World.loadSystemFromSource", source,
                                         StagesOf(source) \o <<"addSystem">>, FALSE,
                                         <<name>>)
                     /\ UNCHANGED <<schedSystems, executionOrder>>
                ELSE /\ lastLoad' = Load("World.loadSystemFromSource", source,
                                         StagesOf(source) \o <<"addSystem">>, TRUE,
                                         <<name>>)
                     /\ schedSystems' =
                           MapSet(schedSystems, name,
                                  [id |-> nextUserSystemId, priority |-> PriorityUser,
                                   enabled |-> TRUE, executionCount |-> 0])
                     /\ executionOrder' =
                           DeploymentOrder(MapSet(schedSystems, name,
                                  [id |-> nextUserSystemId, priority |-> PriorityUser,
                                   enabled |-> TRUE, executionCount |-> 0]))

\* World.unloadSystem: the loader forgets the name, then removeSystem, which
\* throws on a name the scheduler does not hold
UnloadSystem(name) ==
    /\ loadedSystems' = MapDelete(loadedSystems, name)
    /\ IF name \in DOMAIN schedSystems
       THEN /\ schedSystems' = MapDelete(schedSystems, name)
            /\ executionOrder' = DeploymentOrder(MapDelete(schedSystems, name))
            /\ lastLoad' = Load("World.unloadSystem", [name |-> name], <<>>, TRUE, <<name>>)
       ELSE /\ lastLoad' = Load("World.unloadSystem", [name |-> name], <<>>, FALSE, <<name>>)
            /\ UNCHANGED <<schedSystems, executionOrder>>
    /\ UNCHANGED nextUserSystemId

(***************************************************************************)
(* Specification SpecLoad: the host loading and unloading programs         *)
(***************************************************************************)

\* Bound on the programs constructed, which the code never caps.
MaxLoads == 3

LoadInit == AclIdle /\ GasIdle /\ SchedIdle /\ CtxIdle /\ ServiceIdle

LoadFrame ==
    UNCHANGED <<aclVars, gasVars, ctxVars, regVars, valVars, evtVars, storeVars,
                isRunning, pc,
                loopIndex, tickLog, frameCount, progLocal, progCaught>>

LoadLoaderLoad ==
    /\ nextUserSystemId < UserSystemFirstId + MaxLoads
    /\ \E source \in Sources, options \in DeploymentOptions,
          timestamp \in Timestamps, random \in Randoms :
          LoadFromSource(source, options, timestamp, random)
    /\ LoadFrame

LoadWorldLoad ==
    /\ nextUserSystemId < UserSystemFirstId + MaxLoads
    /\ \E source \in Sources, timestamp \in Timestamps, random \in Randoms :
          LoadSystemFromSource(source, timestamp, random)
    /\ LoadFrame

LoadWorldUnload ==
    /\ \E name \in DOMAIN loadedSystems \cup DOMAIN schedSystems : UnloadSystem(name)
    /\ LoadFrame

LoadNext == LoadLoaderLoad \/ LoadWorldLoad \/ LoadWorldUnload

SpecLoad == LoadInit /\ [][LoadNext]_vars

(***************************************************************************)
(* The security validator's second pass: validateStringPatterns strips     *)
(* comments and string literals with removeCommentsAndStrings and looks    *)
(* for dangerous keywords in what is left.  A source is a sequence of      *)
(* characters; a dangerous keyword or idiom is one element of it.          *)
(***************************************************************************)

Quote == "\""

Backslash == "\\"

Slash == "/"

Star == "*"

Newline == "\n"

Keyword == "__proto__"

\* The characters sources are made of.
SourceChars == {Quote, Backslash, Slash, Star, Newline, Keyword}

\* The characters that open a string for removeCommentsAndStrings.
\* (the third is the backquote, which a string of this module cannot hold)
StringChars == {"\"", "'", "backquote"}

\* Bound on the length of a source.
MaxSourceLen == 5

SourceTexts == UNION {[1..k -> SourceChars] : k \in 0..MaxSourceLen}

\* source[i] with the code's indices from 0; "undefined" outside the source
CharAt(source, i) ==
    IF 0 <= i /\ i < Len(source) THEN source[i + 1] ELSE "undefined"

\* removeCommentsAndStrings: its while loop from index i on
RECURSIVE RemoveFrom(_, _, _, _, _, _)
RemoveFrom(source, i, inString, inComment, stringChar, result) ==
    IF ~(i < Len(source)) THEN result
    ELSE IF ~inString /\ ~inComment
    THEN IF CharAt(source, i) = "/" /\ CharAt(source, i + 1) = "/"
         THEN RemoveFrom(source, i + 2, inString, TRUE, stringChar, result)
         ELSE IF CharAt(source, i) = "/" /\ CharAt(source, i + 1) = "*"
         THEN RemoveFrom(source, i + 2, inString, TRUE, stringChar, result)
         ELSE IF CharAt(source, i) \in StringChars
         THEN RemoveFrom(source, i + 1, TRUE, inComment, CharAt(source, i), result)
         ELSE RemoveFrom(source, i + 1, inString, inComment, stringChar,
                         Append(result, CharAt(source, i)))
    ELSE IF inString
    THEN IF CharAt(source, i) = stringChar /\ CharAt(source, i - 1) # "\\"
         THEN RemoveFrom(source, i + 1, FALSE, inComment, "", result)
         ELSE RemoveFrom(source, i + 1, inString, inComment, stringChar, result)
    ELSE IF CharAt(source, i) = "\n"
    THEN RemoveFrom(source, i + 1, inString, FALSE, stringChar, Append(result, "\n"))
    ELSE IF CharAt(source, i) = "*" /\ CharAt(source, i + 1) = "/"
    THEN RemoveFrom(source, i + 2, inString, FALSE, stringChar, result)
    ELSE RemoveFrom(source, i + 1, inString, inComment, stringChar, result)

\* removeCommentsAndStrings
RemoveCommentsAndStrings(source) == RemoveFrom(source, 0, FALSE, FALSE, "", <<>>)

\* cleanSource.includes(keyword)
Includes(text, keyword) == \E i \in 1..Len(text) : text[i] = keyword

\* validateStringPatterns throws
ValidateStringPatternsThrows(source) ==
    Includes(RemoveCommentsAndStrings(source), Keyword)

\* What the language makes of each character of a source: "code", "string"
\* (inside a string literal, its quotes included) or "comment"; the last
\* element is where the source ends ("code", or "open" inside a string or
\* a block comment that is not closed, or after a backslash or a line break
\* no string may hold).
RECURSIVE LexFrom(_, _, _, _)
LexFrom(source, i, mode, kinds) ==
    IF i > Len(source)
    THEN Append(kinds, IF mode \in {"code", "line"} THEN "code" ELSE "open")
    ELSE IF mode = "code"
    THEN IF source[i] = Slash /\ i < Len(source) /\ source[i + 1] = Slash
         THEN LexFrom(source, i + 2, "line", kinds \o <<"comment", "comment">>)
         ELSE IF source[i] = Slash /\ i < Len(source) /\ source[i + 1] = Star
         THEN LexFrom(source, i + 2, "block", kinds \o <<"comment", "comment">>)
         ELSE IF source[i] = Quote
         THEN LexFrom(source, i + 1, "string", Append(kinds, "string"))
         ELSE IF source[i] = Backslash
         THEN Append(kinds, "open")
         ELSE LexFrom(source, i + 1, "code", Append(kinds, "code"))
    ELSE IF mode = "string"
    THEN IF source[i] = Backslash /\ i < Len(source)
         THEN LexFrom(source, i + 2, "string", kinds \o <<"string", "string">>)
         ELSE IF source[i] = Quote
         THEN LexFrom(source, i + 1, "code", Append(kinds, "string"))
         ELSE IF source[i] \in {Newline, Backslash}
         THEN Append(kinds, "open")
         ELSE LexFrom(source, i + 1, "string", Append(kinds, "string"))
    ELSE IF mode = "line"
    THEN IF source[i] = Newline
         THEN LexFrom(source, i + 1, "code", Append(kinds, "code"))
         ELSE LexFrom(source, i + 1, "line", Append(kinds, "comment"))
    ELSE IF source[i] = Star /\ i < Len(source) /\ source[i + 1] = Slash
    THEN LexFrom(source, i + 2, "code", kinds \o <<"comment", "comment">>)
    ELSE LexFrom(source, i + 1, "block", Append(kinds, "comment"))

Lex(source) == LexFrom(source, 1, "code", <<>>)

\* Every string and comment of the source is closed.
WellFormed(source) == Lex(source)[Len(Lex(source))] = "code"

\* The keyword stands in code, outside every comment and string literal.
KeywordInCode(source) ==
    \E i \in 1..Len(source) : source[i] = Keyword /\ Lex(source)[i] = "code"

(***************************************************************************)
(* Specification SpecVal: the second pass applied to a source              *)
(***************************************************************************)

ValInit ==
    /\ AclIdle /\ GasIdle /\ SchedIdle /\ CtxIdle /\ RegIdle /\ LoaderIdle /\ EvtIdle
    /\ StoreIdle
    /\ valSource \in SourceTexts
    /\ valResult = "none"

\* validateStringPatterns(source)
ValValidateStringPatterns ==
    /\ valResult = "none"
    /\ valResult' = IF ValidateStringPatternsThrows(valSource)
                    THEN "rejected" ELSE "accepted"
    /\ UNCHANGED valSource
    /\ UNCHANGED <<aclVars, gasVars, schedVars, ctxVars, regVars, loadVars, evtVars,
                   storeVars>>

ValNext == ValValidateStringPatterns

SpecVal == ValInit /\ [][ValNext]_vars

(***************************************************************************)
(* The event system: programs subscribe handlers to event types and emit   *)
(* events, which emit delivers to the subscriptions its options select.    *)
(***************************************************************************)

\* The programs that subscribe and emit, and the event types they use.
EvtSystems == {"A", "B"}

EventTypes == {"T", "U"}

\* What a handler does when it is invoked: nothing that matters here
\* ("plain"), it unsubscribes its own subscription ("once"), or it throws
\* ("throws").
Handlers == {"plain", "once", "throws"}

\* emit's options: targetSystems (empty when not given) and broadcast
EmitOptions == [targetSystems : SUBSET EvtSystems, broadcast : BOOLEAN]

\* EventSystem.maxEventHistory
MaxEventHistory == 1000

\* `sub_${this.nextSubscriptionId++}`
SubscriptionIdOf(n) == "sub_" \o ToString(n)

\* this.subscriptions.get(eventType) || []
SubscriptionsOf(subs, eventType) ==
    IF eventType \in DOMAIN subs THEN subs[eventType] ELSE <<>>

\* this.eventHistory.get(eventType), or the empty array addToHistory makes
HistoryOf(history, eventType) ==
    IF eventType \in DOMAIN history THEN history[eventType] ELSE <<>>

\* The elements of an array.
Range(seq) == {seq[i] : i \in 1..Len(seq)}

\* filter(sub => keep(sub)) on an array
RECURSIVE FilterSeq(_, _)
FilterSeq(seq, keep) ==
    IF seq = <<>> THEN <<>>
    ELSE IF Head(seq) \in keep THEN <<Head(seq)>> \o FilterSeq(Tail(seq), keep)
    ELSE FilterSeq(Tail(seq), keep)

\* filterTargetSubscriptions
FilterTargetSubscriptions(subs, emitterSystemId, options) ==
    LET targeted ==
            IF options.targetSystems # {}
            THEN FilterSeq(subs,
                           {sub \in Range(subs) :
                               sub.systemId \in options.targetSystems})
            ELSE subs
    IN  IF ~options.broadcast
        THEN FilterSeq(targeted, {sub \in Range(targeted) :
                                     sub.systemId # emitterSystemId})
        ELSE targeted

\* filterTargetSubscriptions returns the array it was given, not a copy
ReturnsSameArray(options) == options.targetSystems = {} /\ options.broadcast

\* subscriptions.splice(index, 1) for the subscription with the id
Splice(subs, subscriptionId) ==
    FilterSeq(subs, {sub \in Range(subs) : sub.id # subscriptionId})

\* unsubscribe's bookkeeping in systemSubscriptions
SystemSubscriptionsWithout(sysSubs, systemId, subscriptionId) ==
    IF systemId \notin DOMAIN sysSubs THEN sysSubs
    ELSE IF sysSubs[systemId] \ {subscriptionId} = {}
    THEN MapDelete(sysSubs, systemId)
    ELSE MapSet(sysSubs, systemId, sysSubs[systemId] \ {subscriptionId})

\* An emit that lets the exception of the subscription's handler through.
EscapesWhenThrown(sub) == sub.handler = "throws"

\* Whether the exception of the subscription's handler leaves emit's loop:
\* the call stands in a try whose catch logs and goes on.
HandlerErrorEscapes(sub) == FALSE

\* emit's delivery loop from position i of the array it iterates: `array` is
\* the event type's array in this.subscriptions, `iterated` the array the
\* loop runs over, which is `array` itself when filterTargetSubscriptions
\* returned it.  A "once" handler calls unsubscribe with its own id; the
\* exception of a "throws" handler is logged with the subscription's system.
RECURSIVE Deliver(_, _, _, _, _, _, _)
Deliver(array, iterated, same, i, invoked, sysSubs, logged) ==
    LET over == IF same THEN array ELSE iterated
    IN  IF i > Len(over)
        THEN [array |-> array, invoked |-> invoked, sysSubs |-> sysSubs,
              logged |-> logged, ok |-> TRUE]
        ELSE IF over[i].handler = "once" /\ over[i] \in Range(array)
        THEN Deliver(Splice(array, over[i].id), iterated, same, i + 1,
                     Append(invoked, over[i].id),
                     SystemSubscriptionsWithout(sysSubs, over[i].systemId, over[i].id),
                     logged)
        ELSE IF over[i].handler = "throws"
        THEN IF HandlerErrorEscapes(over[i])
             THEN [array |-> array, invoked |-> Append(invoked, over[i].id),
                   sysSubs |-> sysSubs, logged |-> logged, ok |-> FALSE]
             ELSE Deliver(array, iterated, same, i + 1, Append(invoked, over[i].id),
                          sysSubs, Append(logged, over[i].systemId))
        ELSE Deliver(array, iterated, same, i + 1, Append(invoked, over[i].id),
                     sysSubs, logged)

\* An emit: who emitted what with which options, the subscriptions of the
\* event type when the emit was made, the ids of those invoked, the systems
\* whose handler's exception was logged, and whether emit returned.
Emitted(emitter, eventType, options, current, invoked, logged, ok) ==
    [emitter |-> emitter, eventType |-> eventType, options |-> options,
     current |-> current, invoked |-> invoked, logged |-> logged, ok |-> ok]

\* EventSystem.subscribe
Subscribe(systemId, eventType, handler) ==
    /\ subscriptions' =
          MapSet(subscriptions, eventType,
                 Append(SubscriptionsOf(subscriptions, eventType),
                        [id |-> SubscriptionIdOf(nextSubscriptionId),
                         systemId |-> systemId, eventType |-> eventType,
                         handler |-> handler]))
    /\ systemSubscriptions' =
          MapSet(systemSubscriptions, systemId,
                 (IF systemId \in DOMAIN systemSubscriptions
                  THEN systemSubscriptions[systemId] ELSE {})
                 \cup {SubscriptionIdOf(nextSubscriptionId)})
    /\ nextSubscriptionId' = nextSubscriptionId + 1
    /\ UNCHANGED <<eventHistory, lastEmit>>

\* EventSystem.unsubscribe of a subscription the event system holds
Unsubscribe(eventType, sub) ==
    /\ subscriptions' =
          IF Splice(subscriptions[eventType], sub.id) = <<>>
          THEN MapDelete(subscriptions, eventType)
          ELSE MapSet(subscriptions, eventType, Splice(subscriptions[eventType], sub.id))
    /\ systemSubscriptions' =
          SystemSubscriptionsWithout(systemSubscriptions, sub.systemId, sub.id)
    /\ UNCHANGED <<nextSubscriptionId, eventHistory, lastEmit>>

AddToHistoryDropsNothing(history, event) == Append(history, event)

\* addToHistory: the event type's history afterwards
AddToHistory(history, event) ==
    IF Len(Append(history, event)) > MaxEventHistory
    THEN SubSeq(Append(history, event),
                Len(Append(history, event)) - MaxEventHistory + 1,
                Len(Append(history, event)))
    ELSE Append(history, event)

\* EventSystem.emit
Emit(emitterSystemId, eventType, options) ==
    LET current == SubscriptionsOf(subscriptions, eventType)
        delivered ==
            Deliver(current,
                    FilterTargetSubscriptions(current, emitterSystemId, options),
                    ReturnsSameArray(options), 1, <<>>, systemSubscriptions, <<>>)
    IN  /\ eventHistory' =
              MapSet(eventHistory, eventType,
                     AddToHistory(HistoryOf(eventHistory, eventType),
                                  [type |-> eventType, emitter |-> emitterSystemId,
                                   broadcast |-> options.broadcast]))
        /\ subscriptions' =
              IF delivered.array = current THEN subscriptions
              ELSE IF delivered.array = <<>> THEN MapDelete(subscriptions, eventType)
              ELSE MapSet(subscriptions, eventType, delivered.array)
        /\ systemSubscriptions' = delivered.sysSubs
        /\ lastEmit' = Emitted(emitterSystemId, eventType, options, current,
                               delivered.invoked, delivered.logged, delivered.ok)
        /\ UNCHANGED nextSubscriptionId

(***************************************************************************)
(* Specification SpecEvt: programs subscribing, unsubscribing and emitting *)
(***************************************************************************)

\* Bounds on the subscriptions made and the events emitted, which the code
\* never caps.
MaxSubscriptions == 3

MaxEmits == 1

EvtInit ==
    AclIdle /\ GasIdle /\ SchedIdle /\ CtxIdle /\ ServiceIdle

EvtFrame ==
    UNCHANGED <<aclVars, gasVars, schedVars, ctxVars, regVars, loadVars, valVars,
                storeVars>>

EvtSubscribe ==
    /\ nextSubscriptionId <= MaxSubscriptions
    /\ \E s \in EvtSystems, t \in EventTypes, h \in Handlers : Subscribe(s, t, h)
    /\ EvtFrame

EvtUnsubscribe ==
    /\ \E t \in DOMAIN subscriptions :
          \E sub \in Range(subscriptions[t]) : Unsubscribe(t, sub)
    /\ EvtFrame

EvtEmit ==
    /\ \A t \in EventTypes : Len(HistoryOf(eventHistory, t)) < MaxEmits
    /\ \E s \in EvtSystems, t \in EventTypes, o \in EmitOptions : Emit(s, t, o)
    /\ EvtFrame

EvtNext == EvtSubscribe \/ EvtUnsubscribe \/ EvtEmit

SpecEvt == EvtInit /\ [][EvtNext]_vars

(***************************************************************************)
(* The life of a program: the host loads it, it creates entities, grants   *)
(* access and subscribes to events under its deployment name, and the host *)
(* unloads it.  The access-control table and the event system each have a  *)
(* method that removes what a program left behind.                         *)
(***************************************************************************)

\* EntityAccessControl.cleanupSystemEntities: the table afterwards
CleanupSystemEntitiesTable(eo, systemId) ==
    [id \in {e \in DOMAIN eo : eo[e].owner # systemId /\ eo[e].createdBy # systemId} |->
        [eo[id] EXCEPT !.delegates = @ \ {systemId}]]

\* EntityAccessControl.cleanupSystemEntities
CleanupSystemEntities(systemId) ==
    /\ entityOwnership' = CleanupSystemEntitiesTable(entityOwnership, systemId)
    /\ systemEntityCounts' =
          IF systemId \in DOMAIN systemEntityCounts
          THEN MapDelete(systemEntityCounts, systemId) ELSE systemEntityCounts
    /\ lastCall' = Call("cleanupSystemEntities", 0, systemId, TRUE)

\* EventSystem.removeSystemSubscriptions: unsubscribe for every id the
\* system is tracked with
RemoveSystemSubscriptions(systemId) ==
    LET ids == IF systemId \in DOMAIN systemSubscriptions
               THEN systemSubscriptions[systemId] ELSE {}
        kept(t) == FilterSeq(subscriptions[t],
                             {sub \in Range(subscriptions[t]) : sub.id \notin ids})
    IN  /\ subscriptions' =
              [t \in {u \in DOMAIN subscriptions : kept(u) # <<>>} |-> kept(t)]
        /\ systemSubscriptions' =
              IF systemId \in DOMAIN systemSubscriptions
              THEN MapDelete(systemSubscriptions, systemId) ELSE systemSubscriptions
        /\ UNCHANGED <<nextSubscriptionId, eventHistory, lastEmit>>

(***************************************************************************)
(* Specification SpecLife: programs loaded, at work and unloaded           *)
(***************************************************************************)

\* Bounds on the programs loaded and the subscriptions made, which the code
\* never caps.
MaxLifeLoads == 2

MaxLifeSubscriptions == 2

\* The programs the scheduler holds: those that run and make calls.
Running == DOMAIN schedSystems

LifeInit == AclIdle /\ GasIdle /\ SchedIdle /\ CtxIdle /\ ServiceIdle

LifeFrame ==
    UNCHANGED <<gasVars, ctxVars, regVars, valVars, storeVars, isRunning, pc, loopIndex,
                tickLog, frameCount, progLocal, progCaught>>

LifeLoad ==
    /\ nextUserSystemId < UserSystemFirstId + MaxLifeLoads
    /\ \E source \in Sources, timestamp \in Timestamps :
          LoadSystemFromSource(source, timestamp, 0)
    /\ UNCHANGED <<aclVars, evtVars>>
    /\ LifeFrame

LifeUnload ==
    /\ \E name \in DOMAIN loadedSystems \cup DOMAIN schedSystems : UnloadSystem(name)
    /\ UNCHANGED <<aclVars, evtVars>>
    /\ LifeFrame

LifeRegisterEntity ==
    /\ \E id \in EntityIds, s \in Running, o \in {None} \cup Running :
          /\ CountOf(systemEntityCounts, s) < MaxCount
          /\ RegisterEntity(id, s, o, NoPermissions)
    /\ UNCHANGED <<loadVars, schedSystems, executionOrder, evtVars>>
    /\ LifeFrame

LifeGrantAccess ==
    /\ \E id \in EntityIds, g \in Running, t \in Running :
          GrantAccess(id, g, t, {READ})
    /\ UNCHANGED <<loadVars, schedSystems, executionOrder, evtVars>>
    /\ LifeFrame

LifeSubscribe ==
    /\ nextSubscriptionId <= MaxLifeSubscriptions
    /\ \E s \in Running : Subscribe(s, "T", "plain")
    /\ UNCHANGED <<loadVars, schedSystems, executionOrder, aclVars>>
    /\ LifeFrame

LifeEmit ==
    /\ Len(HistoryOf(eventHistory, "T")) < MaxEmits
    /\ \E s \in Running, o \in EmitOptions : Emit(s, "T", o)
    /\ UNCHANGED <<loadVars, schedSystems, executionOrder, aclVars>>
    /\ LifeFrame

LifeCleanupSystemEntities ==
    /\ \E s \in {entityOwnership[e].createdBy : e \in DOMAIN entityOwnership} :
          CleanupSystemEntities(s)
    /\ UNCHANGED <<loadVars, schedSystems, executionOrder, evtVars>>
    /\ LifeFrame

LifeRemoveSystemSubscriptions ==
    /\ \E s \in DOMAIN systemSubscriptions : RemoveSystemSubscriptions(s)
    /\ UNCHANGED <<loadVars, schedSystems, executionOrder, aclVars>>
    /\ LifeFrame

LifeNext ==
    \/ LifeLoad
    \/ LifeUnload
    \/ LifeRegisterEntity
    \/ LifeGrantAccess
    \/ LifeSubscribe
    \/ LifeEmit
    \/ LifeCleanupSystemEntities
    \/ LifeRemoveSystemSubscriptions

SpecLife == LifeInit /\ [][LifeNext]_vars

(***************************************************************************)
(* The world store with its archetypes.  An archetype holds the entities   *)
(* of one component composition in arrays: `entities` and one array per    *)
(* component type, in the order the entities were added (a removal moves   *)
(* the last entity into the gap).  Archetype objects live in a heap and    *)
(* are known by their position in it; World.archetypes maps the hash key   *)
(* of a composition to its archetype.                                      *)
(***************************************************************************)

\* The ids of the component types in use: a built-in type, and a type
\* declared by a program, whose id starts at DynamicIdStart.
ComponentTypeIds == {0, DynamicIdStart}

\* The component values programs store.
ComponentValues == {1, 2}

\* The bits of the bigint a mask is turned into.
MaskBits == 64

\* component-mask.ts exists in two versions: one keeps a Set of ids
\* ("set"), one keeps a bigint ("bigint").  A build has one of them.
MaskBuilds == {"set", "bigint"}

\* ComponentMask.set throws
MaskSetThrows(build, componentId) == build = "bigint" /\ componentId >= MaskBits

\* ComponentMask.fromComponentIds throws
FromComponentIdsThrows(build, ids) == \E id \in ids : MaskSetThrows(build, id)

\* ComponentMask.has on the mask made from the ids
MaskHas(mask, componentId) == componentId \in mask

\* ComponentMask.contains
MaskContains(mask, other) == other \subseteq mask

RECURSIVE Pow2(_)
Pow2(n) == IF n = 0 THEN 1 ELSE 2 * Pow2(n - 1)

RECURSIVE SumPow2(_)
SumPow2(ids) ==
    IF ids = {} THEN 0
    ELSE LET id == CHOOSE x \in ids : TRUE IN Pow2(id) + SumPow2(ids \ {id})

\* ComponentMask.getMask: the bits of the ids below 64
GetMask(mask) == SumPow2({id \in mask : id < MaskBits})

\* [...componentTypes].sort((a, b) => a.id - b.id)
RECURSIVE SortedIds(_)
SortedIds(ids) ==
    IF ids = {} THEN <<>>
    ELSE LET least == CHOOSE x \in ids : \A y \in ids : x <= y
         IN  <<least>> \o SortedIds(ids \ {least})

\* "undefined", and a value that is there
Undefined == <<>>

Some(v) == <<v>>

\* new Archetype(componentTypes, pool)
NewArchetype(ids) ==
    [componentTypes |-> SortedIds(ids),
     componentMask  |-> ids,
     entities       |-> <<>>,
     components     |-> [t \in ids |-> <<>>]]

\* Archetype.entityToIndex.get(entity.id), counted from 1; 0 for undefined
EntityIndex(archetype, entity) ==
    IF \E i \in 1..Len(archetype.entities) : archetype.entities[i].id = entity.id
    THEN CHOOSE i \in 1..Len(archetype.entities) : archetype.entities[i].id = entity.id
    ELSE 0

\* Archetype.addEntity throws: the entity is there already, or a component
\* of the archetype is missing from the data
ArchetypeAddEntityThrows(archetype, entity, componentData) ==
    \/ EntityIndex(archetype, entity) # 0
    \/ \E t \in Range(archetype.componentTypes) : t \notin DOMAIN componentData

\* Archetype.addEntity: the archetype afterwards
ArchetypeAddEntity(archetype, entity, componentData) ==
    [archetype EXCEPT
        !.entities = Append(@, entity),
        !.components = [t \in DOMAIN @ |-> Append(@[t], componentData[t])]]

\* Archetype.removeEntity: the component data it returns (the empty map
\* stands for undefined as well: World.addComponent treats both alike)
ArchetypeRemovedData(archetype, entity) ==
    IF EntityIndex(archetype, entity) = 0 THEN <<>>
    ELSE [t \in Range(archetype.componentTypes) |->
             archetype.components[t][EntityIndex(archetype, entity)]]

\* one array after the swap-remove at index
SwapRemove(array, index) ==
    IF index # Len(array)
    THEN SubSeq([array EXCEPT ![index] = array[Len(array)]], 1, Len(array) - 1)
    ELSE SubSeq(array, 1, Len(array) - 1)

\* Archetype.removeEntity: the archetype afterwards
ArchetypeRemoveEntity(archetype, entity) ==
    IF EntityIndex(archetype, entity) = 0 THEN archetype
    ELSE [archetype EXCEPT
             !.entities = SwapRemove(@, EntityIndex(archetype, entity)),
             !.components =
                 [t \in DOMAIN @ |-> SwapRemove(@[t], EntityIndex(archetype, entity))]]

\* Archetype.getComponent
ArchetypeGetComponent(archetype, entity, componentId) ==
    IF EntityIndex(archetype, entity) = 0 THEN Undefined
    ELSE IF componentId \notin DOMAIN archetype.components THEN Undefined
    ELSE Some(archetype.components[componentId][EntityIndex(archetype, entity)])

\* Archetype.setComponent throws
ArchetypeSetComponentThrows(archetype, entity, componentId) ==
    \/ EntityIndex(archetype, entity) = 0
    \/ componentId \notin DOMAIN archetype.components

\* Archetype.setComponent: the archetype afterwards
ArchetypeSetComponent(archetype, entity, componentId, component) ==
    [archetype EXCEPT
        !.components[componentId][EntityIndex(archetype, entity)] = component]

\* Archetype.clear
ArchetypeClear(archetype) ==
    [archetype EXCEPT !.entities = <<>>, !.components = <<>>]

\* Archetype.getEntities: a copy sorted by id
RECURSIVE SortedById(_)
SortedById(handles) ==
    IF handles = {} THEN <<>>
    ELSE LET least == CHOOSE h \in handles : \A g \in handles : h.id <= g.id
         IN  <<least>> \o SortedById(handles \ {least})

ArchetypeGetEntities(archetype) == SortedById(Range(archetype.entities))

\* Array.indexOf, counted from 1; 0 for -1
IndexIn(array, element) ==
    IF \E i \in 1..Len(array) : array[i] = element
    THEN CHOOSE i \in 1..Len(array) :
            array[i] = element /\ \A j \in 1..(i - 1) : array[j] # element
    ELSE 0

\* The world's store as one value: the archetype heap, World.archetypes,
\* World.archetypeList and World.entityToArchetype.
StoreOf(heap, byKey, list, e2a) ==
    [heap |-> heap, archetypes |-> byKey, archetypeList |-> list,
     entityToArchetype |-> e2a]

\* The outcome of a call on the store: the store afterwards and whether the
\* call threw.
Outcome(store, threw) == [store |-> store, threw |-> threw]

\* World.getOrCreateArchetype throws (making the mask)
GetOrCreateArchetypeThrows(build, ids) == FromComponentIdsThrows(build, ids)

\* World.getOrCreateArchetype: the archetype it returns
GetOrCreateArchetypeResult(store, ids) ==
    IF GetMask(ids) \in DOMAIN store.archetypes
    THEN store.archetypes[GetMask(ids)]
    ELSE Len(store.heap) + 1

\* World.getOrCreateArchetype: the store afterwards
GetOrCreateArchetype(store, ids) ==
    IF GetMask(ids) \in DOMAIN store.archetypes THEN store
    ELSE [store EXCEPT
             !.heap = Append(@, NewArchetype(ids)),
             !.archetypes = MapSet(@, GetMask(ids), Len(store.heap) + 1),
             !.archetypeList = Append(@, Len(store.heap) + 1)]

\* World.removeEmptyArchetype
RemoveEmptyArchetype(store, a) ==
    IF GetMask(store.heap[a].componentMask) \in DOMAIN store.archetypes
    THEN [store EXCEPT
             !.archetypes = MapDelete(@, GetMask(store.heap[a].componentMask)),
             !.archetypeList = FilterSeq(@, Range(@) \ {a}),
             !.heap[a] = ArchetypeClear(@)]
    ELSE store

\* if (archetype.isEmpty()) removeEmptyArchetype(archetype)
CleanUpIfEmpty(store, a) ==
    IF store.heap[a].entities = <<>> THEN RemoveEmptyArchetype(store, a) ELSE store

\* World.addComponent(entity, componentType, component)
AddComponent(build, store, gens, entity, componentId, component) ==
    IF ~IsAlive(gens, entity) THEN Outcome(store, TRUE)
    ELSE IF /\ entity.id \in DOMAIN store.entityToArchetype
            /\ MaskHas(store.heap[store.entityToArchetype[entity.id]].componentMask,
                       componentId)
    THEN LET a == store.entityToArchetype[entity.id]
         IN  IF ArchetypeSetComponentThrows(store.heap[a], entity, componentId)
             THEN Outcome(store, TRUE)
             ELSE Outcome([store EXCEPT !.heap[a] =
                              ArchetypeSetComponent(@, entity, componentId, component)],
                          FALSE)
    ELSE LET has == entity.id \in DOMAIN store.entityToArchetype
             a == store.entityToArchetype[entity.id]
             existingComponents ==
                 IF has THEN ArchetypeRemovedData(store.heap[a], entity) ELSE <<>>
             removed ==
                 IF has
                 THEN CleanUpIfEmpty([store EXCEPT !.heap[a] =
                                         ArchetypeRemoveEntity(@, entity)], a)
                 ELSE store
             newComponentTypes ==
                 IF has THEN Range(store.heap[a].componentTypes) \cup {componentId}
                 ELSE {componentId}
             componentData == MapSet(existingComponents, componentId, component)
             target == GetOrCreateArchetypeResult(removed, newComponentTypes)
             created == GetOrCreateArchetype(removed, newComponentTypes)
         IN  IF GetOrCreateArchetypeThrows(build, newComponentTypes)
             THEN Outcome(removed, TRUE)
             ELSE IF ArchetypeAddEntityThrows(created.heap[target], entity, componentData)
             THEN Outcome(created, TRUE)
             ELSE Outcome([created EXCEPT
                              !.heap[target] = ArchetypeAddEntity(@, entity, componentData),
                              !.entityToArchetype = MapSet(@, entity.id, target)],
                          FALSE)

\* World.removeComponent(entity, componentType)
RemoveComponent(build, store, gens, entity, componentId) ==
    IF ~IsAlive(gens, entity) THEN Outcome(store, TRUE)
    ELSE IF \/ entity.id \notin DOMAIN store.entityToArchetype
            \/ ~MaskHas(store.heap[store.entityToArchetype[entity.id]].componentMask,
                        componentId)
    THEN Outcome(store, FALSE)
    ELSE LET a == store.entityToArchetype[entity.id]
             remainingTypes ==
                 {t \in Range(store.heap[a].componentTypes) :
                     /\ t # componentId
                     /\ ArchetypeGetComponent(store.heap[a], entity, t) # Undefined}
             remainingComponents ==
                 [t \in remainingTypes |->
                     ArchetypeGetComponent(store.heap[a], entity, t)[1]]
             removed == CleanUpIfEmpty([store EXCEPT !.heap[a] =
                                           ArchetypeRemoveEntity(@, entity)], a)
             target == GetOrCreateArchetypeResult(removed, remainingTypes)
             created == GetOrCreateArchetype(removed, remainingTypes)
         IN  IF remainingTypes = {}
             THEN Outcome([removed EXCEPT
                              !.entityToArchetype = MapDelete(@, entity.id)], FALSE)
             ELSE IF GetOrCreateArchetypeThrows(build, remainingTypes)
             THEN Outcome(removed, TRUE)
             ELSE IF ArchetypeAddEntityThrows(created.heap[target], entity,
                                              remainingComponents)
             THEN Outcome(created, TRUE)
             ELSE Outcome([created EXCEPT
                              !.heap[target] =
                                  ArchetypeAddEntity(@, entity, remainingComponents),
                              !.entityToArchetype = MapSet(@, entity.id, target)],
                          FALSE)

\* World.destroyEntity, up to the deallocate: the store afterwards
DestroyEntityStore(store, entity) ==
    IF entity.id \in DOMAIN store.entityToArchetype
    THEN LET a == store.entityToArchetype[entity.id]
         IN  CleanUpIfEmpty([store EXCEPT
                                !.heap[a] = ArchetypeRemoveEntity(@, entity),
                                !.entityToArchetype = MapDelete(@, entity.id)], a)
    ELSE store

\* World.getComponent
GetComponent(store, gens, entity, componentId) ==
    IF ~IsAlive(gens, entity) THEN Undefined
    ELSE IF entity.id \notin DOMAIN store.entityToArchetype THEN Undefined
    ELSE ArchetypeGetComponent(store.heap[store.entityToArchetype[entity.id]],
                               entity, componentId)

\* World.hasComponent
HasComponent(store, entity, componentId) ==
    /\ entity.id \in DOMAIN store.entityToArchetype
    /\ MaskHas(store.heap[store.entityToArchetype[entity.id]].componentMask,
               componentId)

\* new Query(componentTypes) throws (making the mask)
QueryThrows(build, ids) == FromComponentIdsThrows(build, ids)

\* Query.updateArchetypes: the archetypes of the list that match
MatchingArchetypes(store, ids) ==
    FilterSeq(store.archetypeList,
              {a \in Range(store.archetypeList) :
                  MaskContains(store.heap[a].componentMask, Range(ids))})

\* Query.iter, one entity of one archetype: the component of each queried
\* type, read at the entity's position in getEntities()
QueryComponents(archetype, entity, ids) ==
    [i \in 1..Len(ids) |->
        archetype.components[ids[i]][IndexIn(ArchetypeGetEntities(archetype), entity)]]

\* Query.iter over one archetype: skipped when an array is missing, else
\* its entities in the order of Archetype.iterate (by id)
QueryArchetype(archetype, ids) ==
    IF \E i \in 1..Len(ids) : ids[i] \notin DOMAIN archetype.components THEN <<>>
    ELSE [k \in 1..Len(archetype.entities) |->
             [entity |-> ArchetypeGetEntities(archetype)[k],
              components |-> QueryComponents(archetype,
                                             ArchetypeGetEntities(archetype)[k], ids)]]

\* Query.iter: what it yields, in order
RECURSIVE QueryIterFrom(_, _, _)
QueryIterFrom(store, matching, ids) ==
    IF matching = <<>> THEN <<>>
    ELSE QueryArchetype(store.heap[Head(matching)], ids)
         \o QueryIterFrom(store, Tail(matching), ids)

\* world.query(...componentTypes).iter()
QueryIter(store, ids) == QueryIterFrom(store, MatchingArchetypes(store, ids), ids)

(***************************************************************************)
(* Specification SpecStore: the host and the programs working on the world *)
(* store                                                                   *)
(***************************************************************************)

\* Bounds on EntityAllocator.nextId, on a generation counter, on the length
\* of the free list and on the archetypes constructed, none of which the
\* code caps.
StoreMaxIds == 2

StoreMaxGeneration == 1

StoreMaxFree == 1

MaxArchetypes == 2

\* The entity handles presented to the store.
StoreHandles == [id : 0..(StoreMaxIds - 1), generation : 0..StoreMaxGeneration]

\* The handles createEntity has returned so far, which are the ones a
\* caller can hold.
Issued ==
    {e \in StoreHandles : e.id < Len(generations) /\ e.generation <= generations[e.id + 1]}

\* The component type lists queries are made with.
QueryTypes ==
    {<<t>> : t \in ComponentTypeIds}
    \cup {ids \in {<<t, u>> : t \in ComponentTypeIds, u \in ComponentTypeIds} :
             ids[1] # ids[2]}

\* The store now.
Store == StoreOf(archetypeHeap, archetypes, archetypeList, entityToArchetype)

\* A call on the store: the method, its arguments, whether the handle was
\* alive when the call was made, whether the call threw, and what it
\* returned.
StoreCall(op, entity, ids, component, alive, threw, result) ==
    [op |-> op, entity |-> entity, ids |-> ids, component |-> component,
     alive |-> alive, threw |-> threw, result |-> result]

\* The store goes to the outcome's.
StoreBecomes(outcome) ==
    /\ archetypeHeap' = outcome.store.heap
    /\ archetypes' = outcome.store.archetypes
    /\ archetypeList' = outcome.store.archetypeList
    /\ entityToArchetype' = outcome.store.entityToArchetype

StoreInit ==
    /\ AclIdle /\ GasIdle /\ SchedIdle /\ CtxIdle
    /\ RegIdle /\ LoaderIdle /\ ValIdle /\ EvtIdle
    /\ archetypeHeap = <<>>
    /\ archetypes = <<>>
    /\ archetypeList = <<>>
    /\ entityToArchetype = <<>>
    /\ lastStore = NoStoreCall
    /\ maskBuild \in MaskBuilds

StoreFrame ==
    UNCHANGED <<aclVars, gasVars, schedVars, entityComponents, componentRegistrations,
                regVars, loadVars, valVars, evtVars, maskBuild>>

\* World.createEntity
StoreCreateEntity ==
    /\ IF freeList # <<>>
       THEN generations[freeList[Len(freeList)] + 1] < StoreMaxGeneration
       ELSE Len(generations) < StoreMaxIds
    /\ generations' = GenerationsAfterAllocate(generations, freeList)
    /\ freeList' = FreeListAfterAllocate(freeList)
    /\ lastStore' = StoreCall("createEntity", AllocatedEntity(generations, freeList),
                              <<>>, 0, TRUE, FALSE, <<>>)
    /\ UNCHANGED <<archetypeHeap, archetypes, archetypeList, entityToArchetype>>
    /\ StoreFrame

\* World.destroyEntity
StoreDestroyEntity ==
    /\ Len(freeList) < StoreMaxFree
    /\ \E e \in Issued :
          /\ IF IsAlive(generations, e)
             THEN /\ StoreBecomes(Outcome(DestroyEntityStore(Store, e), FALSE))
                  /\ freeList' = Append(freeList, e.id)
             ELSE /\ UNCHANGED <<archetypeHeap, archetypes, archetypeList,
                                 entityToArchetype, freeList>>
          /\ lastStore' = StoreCall("destroyEntity", e, <<>>, 0,
                                    IsAlive(generations, e), ~IsAlive(generations, e),
                                    <<>>)
    /\ UNCHANGED generations
    /\ StoreFrame

\* World.addComponent
StoreAddComponent ==
    /\ \E e \in Issued, t \in ComponentTypeIds, v \in ComponentValues :
          LET outcome == AddComponent(maskBuild, Store, generations, e, t, v) IN
          /\ Len(outcome.store.heap) <= MaxArchetypes
          /\ StoreBecomes(outcome)
          /\ lastStore' = StoreCall("addComponent", e, <<t>>, v, IsAlive(generations, e),
                                    outcome.threw, <<>>)
    /\ UNCHANGED <<generations, freeList>>
    /\ StoreFrame

\* World.removeComponent
StoreRemoveComponent ==
    /\ \E e \in Issued, t \in ComponentTypeIds :
          LET outcome == RemoveComponent(maskBuild, Store, generations, e, t) IN
          /\ Len(outcome.store.heap) <= MaxArchetypes
          /\ StoreBecomes(outcome)
          /\ lastStore' = StoreCall("removeComponent", e, <<t>>, 0, IsAlive(generations, e),
                                    outcome.threw, <<>>)
    /\ UNCHANGED <<generations, freeList>>
    /\ StoreFrame

\* World.getComponent
StoreGetComponent ==
    /\ \E e \in Issued, t \in ComponentTypeIds :
          lastStore' = StoreCall("getComponent", e, <<t>>, 0, IsAlive(generations, e),
                                 FALSE, GetComponent(Store, generations, e, t))
    /\ UNCHANGED <<generations, freeList, archetypeHeap, archetypes, archetypeList,
                   entityToArchetype>>
    /\ StoreFrame

\* World.hasComponent
StoreHasComponent ==
    /\ \E e \in Issued, t \in ComponentTypeIds :
          lastStore' = StoreCall("hasComponent", e, <<t>>, 0, IsAlive(generations, e),
                                 FALSE, Some(HasComponent(Store, e, t)))
    /\ UNCHANGED <<generations, freeList, archetypeHeap, archetypes, archetypeList,
                   entityToArchetype>>
    /\ StoreFrame

\* world.query(...componentTypes).iter(), iterated to its end
StoreQuery ==
    /\ \E ids \in QueryTypes :
          lastStore' = StoreCall("query", [id |-> 0, generation |-> 0], ids, 0, TRUE,
                                 QueryThrows(maskBuild, Range(ids)),
                                 IF QueryThrows(maskBuild, Range(ids)) THEN <<>>
                                 ELSE QueryIter(Store, ids))
    /\ UNCHANGED <<generations, freeList, archetypeHeap, archetypes, archetypeList,
                   entityToArchetype>>
    /\ StoreFrame

StoreNext ==
    \/ StoreCreateEntity
    \/ StoreDestroyEntity
    \/ StoreAddComponent
    \/ StoreRemoveComponent
    \/ StoreGetComponent
    \/ StoreHasComponent
    \/ StoreQuery

SpecStore == StoreInit /\ [][StoreNext]_vars

(***************************************************************************)
(* Specification SpecTick: ticks that subscribe, emit and ask for a pass   *)
(***************************************************************************)

\* Bound on the subscriptions made by ticks, which the code never caps.
MaxTickSubscriptions == 2

\* The program that subscribed the subscription with this id, among those
\* the event type had when the emit was made.
SubscriberOf(current, id) ==
    (CHOOSE sub \in Range(current) : sub.id = id).systemId

RecursionGuardOff(running) == FALSE

\* executeSystems: if (this.isRunning) throw new Error('Systems are already
\* running (recursive execution detected)')
RecursiveExecutionDetected(running) == running

TickInit == SchedInit

TickFrame == UNCHANGED <<aclVars, ctxVars, regVars, loadVars, valVars, storeVars>>

\* EnhancedSystemContext.subscribe, called by the running program: the
\* charge, then EventSystem.subscribe in the program's name.
TickSubscribe ==
    /\ pc = "exec"
    /\ nextSubscriptionId <= MaxTickSubscriptions
    /\ ConsumeGas("eventSubscribe", <<>>)
    /\ IF GasAfter(gasConfig, gasUsed, "eventSubscribe", <<>>).threw
       THEN /\ TickEnds("gas")
            /\ UNCHANGED evtVars
       ELSE /\ Subscribe(CurrentSystem, "T", "plain")
            /\ UNCHANGED <<schedSystems, executionOrder, isRunning, pc, loopIndex,
                           tickLog, frameCount>>
    /\ UNCHANGED <<progLocal, progCaught>>
    /\ TickFrame

\* EnhancedSystemContext.emit, called by the running program: the charge,
\* then EventSystem.emit in the program's name, which calls the handlers
\* before it returns.
TickEmit ==
    /\ pc = "exec"
    /\ Len(HistoryOf(eventHistory, "T")) < MaxEmits
    /\ ConsumeGas("eventEmit", <<>>)
    /\ IF GasAfter(gasConfig, gasUsed, "eventEmit", <<>>).threw
       THEN /\ TickEnds("gas")
            /\ UNCHANGED evtVars
       ELSE /\ \E o \in EmitOptions : Emit(CurrentSystem, "T", o)
            /\ UNCHANGED <<schedSystems, executionOrder, isRunning, pc, loopIndex,
                           tickLog, frameCount>>
    /\ UNCHANGED <<progLocal, progCaught>>
    /\ TickFrame

\* The running system calls world.runSystems: executeSystems throws on its
\* first line while a pass is running, and the system catches the error or
\* lets it out to the pass, which logs it.  Without the throw the call
\* would set out on a pass of its own.
TickRunSystems ==
    /\ pc = "exec"
    /\ IF RecursiveExecutionDetected(isRunning)
       THEN \E catches \in BOOLEAN :
               IF catches
               THEN /\ progCaught' = TRUE
                    /\ UNCHANGED <<schedSystems, executionOrder, isRunning, pc, loopIndex,
                                   tickLog, frameCount>>
               ELSE /\ TickEnds("running")
                    /\ UNCHANGED progCaught
       ELSE /\ pc' = "loop"
            /\ loopIndex' = 1
            /\ tickLog' = <<>>
            /\ UNCHANGED <<schedSystems, executionOrder, isRunning, frameCount, progCaught>>
    /\ UNCHANGED <<progLocal, gasVars, evtVars>>
    /\ TickFrame

TickNext ==
    \/ SchedStartPass
    \/ SchedSkipDisabled
    \/ SchedBeginTick
    \/ SchedEndPass
    \/ ProgReturn
    \/ ProgThrow
    \/ TickSubscribe
    \/ TickEmit
    \/ TickRunSystems

SpecTick == TickInit /\ [][TickNext]_vars

(***************************************************************************)
(* Specification SpecHist: a tick emitting on a long event history         *)
(***************************************************************************)

\* The lengths the history of "T" has when the tick begins.
HistoryLengths == {MaxEventHistory - 2, MaxEventHistory - 1, MaxEventHistory}

\* The history of "T" after n emits made in turn by "A" and "B".
EmittedInTurn(n) ==
    [i \in 1..n |-> [type |-> "T", emitter |-> IF i % 2 = 1 THEN "A" ELSE "B",
                     broadcast |-> FALSE]]

\* The emit options without a target list.
UntargetedOptions == {o \in EmitOptions : o.targetSystems = {}}

\* Nobody has subscribed; "T" has a history of n events, the last of them
\* emitted by the last emit; a program's tick has begun on a fresh ledger.
HistInit ==
    /\ AclIdle /\ SchedIdle /\ CtxIdle
    /\ RegIdle /\ LoaderIdle /\ ValIdle /\ StoreIdle
    /\ gasConfig \in {MergedGasConfig(d) : d \in DeclaredGasConfigs}
    /\ gasUsed = 0
    /\ gasLog = <<>>
    /\ subscriptions = <<>>
    /\ systemSubscriptions = <<>>
    /\ nextSubscriptionId = 1
    /\ \E n \in HistoryLengths :
          /\ eventHistory = [t \in {"T"} |-> EmittedInTurn(n)]
          /\ lastEmit = Emitted(EmittedInTurn(n)[n].emitter, "T",
                                [targetSystems |-> {}, broadcast |-> FALSE],
                                <<>>, <<>>, <<>>, TRUE)

HistFrame ==
    UNCHANGED <<aclVars, schedVars, ctxVars, regVars, loadVars, valVars, storeVars>>

\* EnhancedSystemContext.emit: the charge, then EventSystem.emit
HistEmit ==
    /\ ConsumeGas("eventEmit", <<>>)
    /\ IF GasAfter(gasConfig, gasUsed, "eventEmit", <<>>).threw
       THEN UNCHANGED evtVars
       ELSE \E s \in EvtSystems, t \in EventTypes, o \in UntargetedOptions : Emit(s, t, o)
    /\ HistFrame

HistNext == HistEmit

SpecHist == HistInit /\ [][HistNext]_vars

(***************************************************************************)
(* Properties of the access-control table (under SpecAcl)                  *)
(***************************************************************************)

IsOwner(eo, id, s) == HasRecord(eo, id) /\ eo[id].owner = s

IsDelegate(eo, id, s) == HasRecord(eo, id) /\ s \in eo[id].delegates

\* C1: hasPermission(E, P, perm) is true iff P is E's current owner, or P is in
\* E's delegate list and perm is in E's permission set; it is false otherwise,
\* also when E has no ownership record, after any sequence of register, grant,
\* revoke, transfer and unregister.
C1_HasPermissionIff ==
    \A id \in EntityIds, p \in Systems, perm \in Permission :
        HasPermission(entityOwnership, id, p, perm)
            <=> /\ HasRecord(entityOwnership, id)
                /\ \/ entityOwnership[id].owner = p
                   \/ /\ p \in entityOwnership[id].delegates
                      /\ perm \in entityOwnership[id].permissions

\* A delegate that passes one check and fails another, beside a program that is
\* neither owner nor delegate, after a revoke.
C1_Witness ==
    /\ lastCall.op = "revoke" /\ lastCall.ok
    /\ \E id \in EntityIds, d \in Systems, q \in Systems :
          /\ IsDelegate(entityOwnership, id, d) /\ ~IsOwner(entityOwnership, id, d)
          /\ HasPermission(entityOwnership, id, d, READ)
          /\ ~HasPermission(entityOwnership, id, d, WRITE)
          /\ ~IsDelegate(entityOwnership, id, q) /\ ~IsOwner(entityOwnership, id, q)
          /\ ~HasPermission(entityOwnership, id, q, READ)

ChangeOps == {"grant", "revoke", "transfer"}

RejectedUnchanged == ~lastCall'.ok /\ entityOwnership' = entityOwnership

\* C2 as claimed: a grantAccess, revokeAccess or transferOwnership call by a
\* program that is not the entity's current owner is rejected and leaves the
\* owner, the delegate list and the permission set unchanged.
C2_OnlyOwnerMayChange ==
    [][(/\ lastCall'.op \in ChangeOps
        /\ ~IsOwner(entityOwnership, lastCall'.entity, lastCall'.caller))
       => RejectedUnchanged]_vars

\* grantAccess also admits a delegate while DELEGATE is in the permission set.
MayGrant(eo, id, s) ==
    \/ IsOwner(eo, id, s)
    \/ IsDelegate(eo, id, s) /\ DELEGATE \in eo[id].permissions

\* C2 as amended: a revokeAccess or transferOwnership call by a program that
\* is not the current owner, and a grantAccess call by a program that is
\* neither the current owner nor a delegate of an entity whose permission set
\* holds DELEGATE, is rejected and leaves the owner, the delegate list and the
\* permission set unchanged.
C2_OnlyAuthorizedMayChange ==
    [][/\ (/\ lastCall'.op \in {"revoke", "transfer"}
           /\ ~IsOwner(entityOwnership, lastCall'.entity, lastCall'.caller))
          => RejectedUnchanged
       /\ (/\ lastCall'.op = "grant"
           /\ ~MayGrant(entityOwnership, lastCall'.entity, lastCall'.caller))
          => RejectedUnchanged]_vars

\* A delegate's grant was rejected, DELEGATE not being in the permission set.
C2_Witness ==
    /\ lastCall.op = "grant" /\ ~lastCall.ok
    /\ IsDelegate(entityOwnership, lastCall.entity, lastCall.caller)
    /\ ~IsOwner(entityOwnership, lastCall.entity, lastCall.caller)

\* C3 as claimed: right after the owner grants only READ to a program D that
\* held no grant on the entity, the WRITE check made for D is refused.
C3_ReadOnlyDelegateIsRefusedWrite ==
    [][\A id \in EntityIds, D \in Systems :
         (/\ HasRecord(entityOwnership, id)
          /\ ~IsOwner(entityOwnership, id, D)
          /\ ~IsDelegate(entityOwnership, id, D)
          /\ GrantAccess(id, entityOwnership[id].owner, D, {READ}))
         => ValidateAccessThrows(entityOwnership', id, D, WRITE)]_vars

\* C4 as claimed: a transfer from A to B lets B pass every check at once and
\* leaves A (not being a delegate) passing none; when the new owner then
\* grants the former owner READ only, the former owner passes READ and no
\* other check.
C4_TransferTakesEffect ==
    [][\A id \in EntityIds, A \in Systems :
         /\ \A B \in Systems \ {A} :
              (IsOwner(entityOwnership, id, A) /\ TransferOwnership(id, A, B))
              => /\ \A perm \in Permission : HasPermission(entityOwnership', id, B, perm)
                 /\ ~IsDelegate(entityOwnership, id, A)
                    => \A perm \in Permission : ~HasPermission(entityOwnership', id, A, perm)
         /\ (/\ lastCall = Call("transfer", id, A, TRUE)
             /\ HasRecord(entityOwnership, id)
             /\ ~IsOwner(entityOwnership, id, A)
             /\ ~IsDelegate(entityOwnership, id, A)
             /\ GrantAccess(id, entityOwnership[id].owner, A, {READ}))
            => \A perm \in Permission \ {READ} :
                  ~HasPermission(entityOwnership', id, A, perm)]_vars

(***************************************************************************)
(* Properties of the gas ledger (under SpecGas)                            *)
(***************************************************************************)

\* The first k calls on the ledger all had tariff T.
AllOfTariff(k, T) == \A j \in 1..k : gasLog[j].cost = T

Tariffs == {gasLog[j].cost : j \in 1..Len(gasLog)}

\* C5: from a fresh ledger, N operations of tariff T advance the recorded
\* spend by exactly N*T, and the k-th of them fails exactly when k*T exceeds
\* the budget: no earlier operation fails and the failure is not deferred.
C5_SpendIsNTimesT ==
    \A k \in 1..Len(gasLog), T \in Tariffs :
        AllOfTariff(k, T)
        => /\ gasLog[k].total = k * T
           /\ gasLog[k].threw <=> (k * T > gasConfig.maxGas)
           /\ (k = Len(gasLog)) => gasUsed = k * T

\* Three operations of one tariff, of which exactly the last one failed.
C5_Witness ==
    /\ Len(gasLog) = 3
    /\ \E T \in Tariffs : AllOfTariff(3, T)
    /\ ~gasLog[1].threw /\ ~gasLog[2].threw /\ gasLog[3].threw

(***************************************************************************)
(* Properties of the scheduler and of ticks (under SpecSched)              *)
(***************************************************************************)

LastOf(seq) == seq[Len(seq)]

EnabledUpTo(i) ==
    SelectSeq(SubSeq(executionOrder, 1, i), LAMBDA n : schedSystems[n].enabled)

TickNames == [i \in 1..Len(tickLog) |-> tickLog[i].name]

\* C7: whatever way ticks end, a pass runs every enabled program once, in
\* execution order: the ticks made so far are those of the enabled programs
\* before the loop position, a finished pass has made the tick of every
\* enabled program, and the scheduler is then ready for the next pass, each
\* enabled program having run once per pass.
C7_FailingTickIsIsolated ==
    /\ pc \in {"loop", "exec"} => TickNames = EnabledUpTo(loopIndex - 1)
    /\ (pc = "idle" /\ frameCount > 0) => TickNames = EnabledUpTo(Len(executionOrder))
    /\ pc = "idle" => ~isRunning
    /\ pc = "idle" =>
          \A n \in DOMAIN schedSystems :
              schedSystems[n].executionCount
                  = IF schedSystems[n].enabled THEN frameCount ELSE 0

\* The second pass is over; in it a tick ran out of gas, another threw, and
\* a program after them ran to its end.
C7_Witness ==
    /\ pc = "idle" /\ frameCount = 2
    /\ Len(tickLog) = 3
    /\ tickLog[1].outcome = "error"
    /\ tickLog[2].outcome = "gas"
    /\ tickLog[3].outcome = "ok"

\* C8 as claimed: every tick that starts comes to an end.
C8_EveryTickTerminates ==
    [](pc = "exec" => <>(pc # "exec"))

(***************************************************************************)
(* Properties of the capability contexts (under SpecCtx)                   *)
(***************************************************************************)

\* C9 as claimed: a context call reads, changes or destroys no entity that
\* has an ownership record on which the caller, when it makes the call, is
\* neither the owner nor a delegate holding the permission the access needs.
C9_NoAccessWithoutPermission ==
    [][\A id \in lastCall'.touched :
          HasRecord(entityOwnership, id)
          => HasPermission(entityOwnership, id, lastCall'.caller, lastCall'.permission)]_vars

\* C10 as claimed: a context call that goes on to shared state has charged
\* the ledger first, and when it reads, changes or destroys an entity it has
\* made an access check between the charge and the store.
C10_GasThenAccessBeforeStore ==
    (lastCall.op # "none" /\ LastOf(lastCall.steps) = "store")
    => /\ lastCall.steps[1] = "gas"
       /\ lastCall.touched # {} => lastCall.steps = <<"gas", "access", "store">>

\* The steps a context call took, as a set.
StepsOf(call) == {call.steps[i] : i \in 1..Len(call.steps)}

\* The four narrow-context methods that name a component type.
NarrowTypedCall(s, e, t) ==
    \/ SystemContextQuery(s, t)
    \/ SystemContextGet(s, e, t)
    \/ SystemContextHas(s, e, t)
    \/ SystemContextUpdate(s, e, t)

\* The names under which the ghost records those four methods.
NarrowTypedOps ==
    {"SystemContext.query", "SystemContext.get", "SystemContext.has",
     "SystemContext.update"}

\* The call went on to the store: it took a "store" step, touched an entity
\* or changed the world store.
ReachedStore ==
    \/ "store" \in StepsOf(lastCall')
    \/ lastCall'.touched # {}
    \/ worldVars' # worldVars

\* C11: a query, get, has or update of the narrow context that names a
\* component type outside the set the calling program declared as required
\* is rejected before the store is reached: no such call takes a "store"
\* step, touches an entity or changes the world store.
C11_OutsideDeclaredSetRejected ==
    [][(lastCall'.op \in NarrowTypedOps /\ ReachedStore)
       => ~\E s \in CtxSystems, e \in Handles, t \in ComponentTypes :
             t \notin Required[s] /\ NarrowTypedCall(s, e, t)]_vars

\* C11's case: an update naming an undeclared type was turned away by the
\* component check while an entity existed that it could have changed.
C11_Witness ==
    /\ lastCall.op = "SystemContext.update"
    /\ lastCall.steps = <<"gas", "access">>
    /\ \E e \in Handles : IsAlive(generations, e)

(***************************************************************************)
(* Properties of the component registries (under SpecReg)                  *)
(***************************************************************************)

\* What a program resolves a name to: the id of its registration and the id
\* of the type, both present and equal.
ResolvesToOwn(name, systemId) ==
    /\ GetComponentId(name, systemId) # <<>>
    /\ GetComponentType(name, systemId) = GetComponentId(name, systemId)
    /\ hashedIdToRegistration[CreateHashedId(systemId, name)].systemId = systemId

\* C12: a program that declares, with a valid schema, a name it has not
\* declared before succeeds whether or not other programs hold that name,
\* and whenever two different programs hold the same name each resolves it
\* to its own registration, and the two numeric ids differ.
C12_SameNameTwoPrograms ==
    [][/\ \A s \in RegSystems, name \in RegNames, schema \in Schemas :
             (/\ <<s, name>> \notin everDeclared
              /\ ~ValidateSchemaThrows(schema)
              /\ DefineComponent(name, schema, s))
             => lastDefine'.ok /\ <<s, name>> \in componentRegistrations'
       /\ \A s \in RegSystems, t \in RegSystems, name \in RegNames :
             (s # t /\ {<<s, name>>, <<t, name>>} \subseteq componentRegistrations')
             => /\ ResolvesToOwn(name, s)'
                /\ ResolvesToOwn(name, t)'
                /\ GetComponentId(name, s)' # GetComponentId(name, t)']_vars

\* C12's case: two programs hold registrations of the same name.
C12_Witness ==
    /\ {<<"A", "Pos">>, <<"B", "Pos">>} \subseteq componentRegistrations
    /\ lastDefine.op = "defineComponent" /\ lastDefine.ok

\* `a > b` on JavaScript numbers
StrictlyGreater(a, b) == a # NaN /\ b # NaN /\ a[1] > b[1]

\* C13 as claimed: a declaration of a name by the program that holds its
\* registration succeeds only if the new schema version is strictly greater
\* than the registered one.
C13_RedeclareOnlyWithGreaterVersion ==
    [][\A s \in RegSystems, name \in RegNames, schema \in Schemas :
          (/\ CreateHashedId(s, name) \in DOMAIN hashedIdToRegistration
           /\ DefineComponent(name, schema, s)
           /\ lastDefine'.ok)
          => StrictlyGreater(schema.version,
                             hashedIdToRegistration[CreateHashedId(s, name)].version)]_vars

\* The ids held by dynamically declared types.
DynamicIds == {hashedIdToRegistration[h].id : h \in DOMAIN hashedIdToRegistration}

\* C14 as claimed: no id held by a dynamically declared type is the id of a
\* built-in type.
C14_DynamicAndBuiltInIdsDisjoint == DynamicIds \cap staticIds = {}

\* The ids freed by removeSystemComponents: ids of the types removed that
\* no registration holds.
FreedIds == {components[h] : h \in DOMAIN components \ DOMAIN hashedIdToRegistration}

\* C15 as claimed: an id freed by a removal can be assigned to a type
\* declared afterwards: the allocator's search, which starts at
\* nextDynamicId and skips the ids in use after the refresh, can reach it.
C15_FreedIdIsEligibleForReuse ==
    \A id \in FreedIds :
        /\ id >= nextDynamicId
        /\ id \notin RefreshStaticComponentIds(usedIds, components, staticIds)

(***************************************************************************)
(* Properties of the source loader (under SpecLoad)                        *)
(***************************************************************************)

LoadOps == {"SystemLoader.loadFromSource", "World.loadSystemFromSource"}

\* C16 as claimed: a load that succeeds yields a deployment name that no
\* program loaded before it holds, so the programs loaded before all stay
\* in the loader's cache beside the new one.
C16_DeploymentNameUnique ==
    [][(lastLoad'.op \in LoadOps /\ lastLoad'.ok)
       => /\ lastLoad'.name[1] \notin DOMAIN loadedSystems
          /\ \A name \in DOMAIN loadedSystems :
                name \in DOMAIN loadedSystems' /\ loadedSystems'[name] = loadedSystems[name]]_vars

\* C17 as claimed: a load that fails leaves the loader's cache and the
\* scheduler as they were.
C17_FailedLoadRegistersNothing ==
    [][(lastLoad'.op \in LoadOps /\ ~lastLoad'.ok)
       => /\ loadedSystems' = loadedSystems
          /\ schedSystems' = schedSystems
          /\ executionOrder' = executionOrder]_vars

\* The stages of a load, as a set.
StagesReached(load) == {load.stages[i] : i \in 1..Len(load.stages)}

C19_KeywordInCodeIsRejected ==
    (valResult # "none" /\ WellFormed(valSource) /\ KeywordInCode(valSource))
    => valResult = "rejected"

(***************************************************************************)
(* Properties of the event system (under SpecEvt)                          *)
(***************************************************************************)

\* The subscriptions an emit's targeting selects, as claimed: those of the
\* listed programs when a target list is given, else all on broadcast, else
\* all but the emitter's.
TargetingMatches(sub, emitter, options) ==
    IF options.targetSystems # {}
    THEN sub.systemId \in options.targetSystems
    ELSE options.broadcast \/ sub.systemId # emitter

\* C20 as claimed: an emit invokes exactly the subscriptions of the event
\* type that were current when it was made and that its targeting selects.
C20_EmitInvokesEveryMatchingSubscriber ==
    Range(lastEmit.invoked) =
        {sub.id : sub \in {c \in Range(lastEmit.current) :
                              TargetingMatches(c, lastEmit.emitter, lastEmit.options)}}

\* The subscriptions with every handler that throws replaced by one that
\* returns.
NoneThrowing(subs) ==
    [i \in 1..Len(subs) |->
        IF subs[i].handler = "throws" THEN [subs[i] EXCEPT !.handler = "plain"]
        ELSE subs[i]]

\* The ids emit's loop would invoke for the last emit if no handler threw.
InvokedIfNoneThrew ==
    Deliver(NoneThrowing(lastEmit.current),
            FilterTargetSubscriptions(NoneThrowing(lastEmit.current),
                                      lastEmit.emitter, lastEmit.options),
            ReturnsSameArray(lastEmit.options), 1, <<>>, <<>>, <<>>).invoked

\* The systems of the invoked subscriptions whose handler throws, in order.
ThrowersInvoked ==
    LET throwing(id) == \E sub \in Range(lastEmit.current) :
                            sub.id = id /\ sub.handler = "throws"
        systemOf(id) == (CHOOSE sub \in Range(lastEmit.current) : sub.id = id).systemId
        ids == FilterSeq(lastEmit.invoked,
                         {id \in Range(lastEmit.invoked) : throwing(id)})
    IN  [i \in 1..Len(ids) |-> systemOf(ids[i])]

\* C21: a handler that throws during an emit is caught and logged, the emit
\* returns normally, and the event reaches the same subscriptions, in the
\* same order, as if no handler had thrown; where no handler unsubscribes
\* during the emit these are all the subscriptions the targeting selects.
C21_HandlerFailureDoesNotBlockDelivery ==
    /\ lastEmit.ok
    /\ lastEmit.logged = ThrowersInvoked
    /\ lastEmit.invoked = InvokedIfNoneThrew
    /\ (\A sub \in Range(lastEmit.current) : sub.handler # "once")
        => lastEmit.invoked =
              [i \in 1..Len(FilterTargetSubscriptions(lastEmit.current,
                                 lastEmit.emitter, lastEmit.options)) |->
                  FilterTargetSubscriptions(lastEmit.current, lastEmit.emitter,
                                            lastEmit.options)[i].id]

\* An emit whose first subscriber threw and whose second was still invoked.
C21_Witness ==
    /\ Len(lastEmit.current) >= 2
    /\ lastEmit.current[1].handler = "throws"
    /\ Len(lastEmit.invoked) >= 2
    /\ lastEmit.invoked[1] = lastEmit.current[1].id
    /\ lastEmit.invoked[2] = lastEmit.current[2].id
    /\ lastEmit.logged # <<>>

(***************************************************************************)
(* Properties of a program's life (under SpecLife)                         *)
(***************************************************************************)

\* The step is a World.unloadSystem that returned.
Unloaded(name) ==
    /\ name \in DOMAIN schedSystems
    /\ name \notin DOMAIN schedSystems'
    /\ lastLoad'.op = "World.unloadSystem"

\* C22 as claimed: right after a program is unloaded, no entity that it
\* owns or created is left in the access-control table and no entity's
\* delegate list names it.
C22_UnloadRemovesEntitiesAndDelegations ==
    [][\A name \in DOMAIN schedSystems :
          Unloaded(name) =>
             \A e \in DOMAIN entityOwnership' :
                /\ entityOwnership'[e].owner # name
                /\ entityOwnership'[e].createdBy # name
                /\ name \notin entityOwnership'[e].delegates]_vars

\* C23 as claimed: an emit invokes no handler of a program that has been
\* unloaded (every subscription it invokes belongs to a program the
\* scheduler holds).
C23_EmitInvokesNoUnloadedProgram ==
    [][eventHistory' # eventHistory =>
          \A sub \in Range(lastEmit'.current) :
             sub.id \in Range(lastEmit'.invoked) => sub.systemId \in DOMAIN schedSystems']_vars

(***************************************************************************)
(* Properties of the world store (under SpecStore)                         *)
(***************************************************************************)

\* The handle's entity was destroyed and its id has been given to a newer
\* entity.
Reused(gens, e) == e.id < Len(gens) /\ e.generation < gens[e.id + 1]

\* C24 as claimed: once an id has been reused, the old handle is not alive,
\* the handle of the entity that now holds the id is, and a call given the
\* old handle neither changes nor reads the new entity: a mutator throws,
\* getComponent returns undefined and hasComponent returns false.
C24_ReusedIdIsNotMistaken ==
    /\ \A e \in StoreHandles :
          Reused(generations, e) =>
             /\ ~IsAlive(generations, e)
             /\ IsAlive(generations, [id |-> e.id, generation |-> generations[e.id + 1]])
    /\ (lastStore.op # "createEntity" /\ Reused(generations, lastStore.entity)) =>
          CASE lastStore.op \in {"addComponent", "removeComponent", "destroyEntity"} ->
                  lastStore.threw
            [] lastStore.op = "getComponent" -> lastStore.result = Undefined
            [] lastStore.op = "hasComponent" -> lastStore.result = Some(FALSE)
            [] OTHER -> TRUE

\* C25 as claimed: after addComponent(h, T, v) on a live handle,
\* getComponent(h, T) is v, for a built-in and a declared type alike, and
\* getComponent(h, U) is undefined for every type U that h does not have.
C25_AddComponentIsUpsert ==
    (lastStore.op = "addComponent" /\ lastStore.alive) =>
        /\ ~lastStore.threw
        /\ GetComponent(Store, generations, lastStore.entity, lastStore.ids[1])
              = Some(lastStore.component)
        /\ \A u \in ComponentTypeIds :
              ~HasComponent(Store, lastStore.entity, u)
              => GetComponent(Store, generations, lastStore.entity, u) = Undefined

\* The ids below the mask's 64 bits: the built-in types.
BuiltInTypeIds == {t \in ComponentTypeIds : t < MaskBits}

\* What a query for the types has to yield: each live entity that has all
\* of them, with its own values.
Expected(ids) ==
    {[entity |-> e,
      components |-> [i \in 1..Len(ids) |->
                         GetComponent(Store, generations, e, ids[i])[1]]] :
        e \in {h \in StoreHandles :
                  /\ IsAlive(generations, h)
                  /\ \A i \in 1..Len(ids) : HasComponent(Store, h, ids[i])}}

\* Every entity the store maps to an archetype is stored in it once (no
\* addComponent has stopped halfway) and only built-in types are stored.
StoredWhole ==
    /\ \A id \in DOMAIN entityToArchetype :
          Cardinality({i \in 1..Len(archetypeHeap[entityToArchetype[id]].entities) :
                          archetypeHeap[entityToArchetype[id]].entities[i].id = id}) = 1
    /\ \A a \in 1..Len(archetypeHeap) :
          archetypeHeap[a].componentMask \subseteq BuiltInTypeIds

\* C26 as claimed, for queries over built-in types on a store in which no
\* addComponent has stopped halfway: iterating the query yields exactly the
\* live entities that have all the types, each once, each with its own
\* current values.
C26_QueryYieldsOwnValues ==
    (/\ lastStore.op = "query"
     /\ Range(lastStore.ids) \subseteq BuiltInTypeIds
     /\ StoredWhole) =>
        /\ ~lastStore.threw
        /\ Range(lastStore.result) = Expected(lastStore.ids)
        /\ Len(lastStore.result) = Cardinality(Range(lastStore.result))

(***************************************************************************)
(* Properties of ticks that use the event system (under SpecTick)          *)
(***************************************************************************)

\* The step is an emit.
EmitStep == eventHistory' # eventHistory

\* A pass over the programs sets out.
PassStarts == pc' = "loop" /\ loopIndex' = 1

\* The programs whose handlers the last emit called.
InvokedPrograms(emitted) ==
    {SubscriberOf(emitted.current, emitted.invoked[i]) : i \in 1..Len(emitted.invoked)}

\* While a tick is in progress no pass sets out, and the tick in progress
\* stays that of the same program until it is the one that ends.
TickRunsToCompletion ==
    /\ ~PassStarts
    /\ pc' = "exec" => (loopIndex' = loopIndex /\ tickLog' = tickLog)
    /\ pc' # "exec" =>
          /\ pc' = "loop"
          /\ loopIndex' = loopIndex + 1
          /\ Len(tickLog') = Len(tickLog) + 1
          /\ LastOf(tickLog').name = CurrentSystem

\* C27 as claimed: while one program's tick is in progress no code of any
\* other program runs (an emit made by the tick calls no handler of another
\* program) and no second pass sets out, until the tick has ended.
C27_NoOtherCodeDuringTick ==
    [][pc = "exec" =>
          /\ TickRunsToCompletion
          /\ EmitStep => InvokedPrograms(lastEmit') \subseteq {CurrentSystem}]_vars

\* C27 amended: while one program's tick is in progress no other program's
\* tick runs and no second pass sets out, until the tick has ended; the
\* code of other programs that does run is that of the handlers they
\* subscribed, each called by an emit the tick makes, before the emit
\* returns.
C27_NoOtherTickDuringTick ==
    [][pc = "exec" =>
          /\ TickRunsToCompletion
          /\ EmitStep =>
                /\ lastEmit'.emitter = CurrentSystem
                /\ Range(lastEmit'.invoked) \subseteq
                      {sub.id : sub \in Range(SubscriptionsOf(subscriptions, "T"))}
          /\ ~EmitStep => lastEmit' = lastEmit]_vars

\* A tick in progress whose emit has called the handler of another program,
\* in a pass in which an earlier tick asked for a pass and was refused.
C27_Witness ==
    /\ pc = "exec"
    /\ lastEmit.emitter = CurrentSystem
    /\ InvokedPrograms(lastEmit) \ {CurrentSystem} # {}
    /\ \E i \in 1..Len(tickLog) : tickLog[i].outcome = "running"

(***************************************************************************)
(* The scenario of the failing charge (under SpecGas)                      *)
(***************************************************************************)

\* A ledger with budget 10 has been charged once, an operation of cost 15.
BudgetTenChargedFifteen ==
    /\ gasConfig.maxGas = 10
    /\ Len(gasLog) = 1
    /\ gasLog[1].cost = 15

\* C28: when a ledger with budget 10 is charged a single operation of cost
\* 15, the charge fails and the ledger afterwards reports a spend of 15
\* against the budget of 10.
C28_FailingChargeIsRecorded ==
    BudgetTenChargedFifteen =>
        /\ gasLog[1].threw
        /\ gasLog[1].total = 15
        /\ gasUsed = 15
        /\ gasConfig.maxGas = 10

C28_Witness == BudgetTenChargedFifteen /\ gasLog[1].threw

(***************************************************************************)
(* Properties of the event history (under SpecHist)                        *)
(***************************************************************************)

\* The last n elements of a sequence.
LastN(seq, n) == SubSeq(seq, Len(seq) - n + 1, Len(seq))

Min(a, b) == IF a < b THEN a ELSE b

\* C29: the history of an event type never holds more than the configured
\* maximum, and an emit leaves in it the events emitted most recently, in
\* the order of their emission: the history it had with the new event at
\* the end, cut at the front to the maximum; the other histories stay.
C29_HistoryIsBoundedAndRecent ==
    [][/\ \A t \in DOMAIN eventHistory' : Len(eventHistory'[t]) <= MaxEventHistory
       /\ EmitStep =>
             LET t == lastEmit'.eventType
                 emitted == HistoryOf(eventHistory, t)
                              \o <<[type |-> t, emitter |-> lastEmit'.emitter,
                                    broadcast |-> lastEmit'.options.broadcast]>>
             IN  /\ HistoryOf(eventHistory', t)
                       = LastN(emitted, Min(Len(emitted), MaxEventHistory))
                 /\ \A u \in EventTypes \ {t} :
                       HistoryOf(eventHistory', u) = HistoryOf(eventHistory, u)]_vars

\* A full history whose oldest event has been dropped by an emit of the
\* tick.
C29_Witness ==
    /\ gasLog # <<>>
    /\ Len(HistoryOf(eventHistory, "T")) = MaxEventHistory
    /\ eventHistory["T"][1].emitter = "B"
    /\ lastEmit.eventType = "T"

(***************************************************************************)
(* A name held by another program (under SpecReg)                          *)
(***************************************************************************)

\* Another program than s holds a registration of the name.
HeldByAnother(s, name) ==
    \E t \in RegSystems \ {s} : <<t, name>> \in componentRegistrations

RecordStays(id) ==
    /\ HasRecord(entityOwnership, id)
    /\ HasRecord(entityOwnership', id)
    /\ lastCall'.op \notin {"register", "unregister"}

\* C31: the delegates of an entity share one permission set.  A grant of
\* WRITE to any delegate puts WRITE into the set of the entity, the set
\* loses nothing for as long as the record stays, and a delegate passes a
\* check exactly when the permission is in the set: so a delegate granted
\* READ only passes a WRITE check once WRITE has been granted to another.
C31_DelegatesShareOnePermissionSet ==
    [][\A id \in EntityIds :
          /\ \A g \in Systems, t \in Systems, ps \in GrantLists :
                (/\ WRITE \in ps
                 /\ ~GrantAccessThrows(entityOwnership, id, g)
                 /\ GrantAccess(id, g, t, ps))
                => /\ t \in entityOwnership'[id].delegates \/ t = entityOwnership'[id].owner
                   /\ \A d \in entityOwnership'[id].delegates :
                         HasPermission(entityOwnership', id, d, WRITE)
          /\ RecordStays(id) =>
                entityOwnership[id].permissions \subseteq entityOwnership'[id].permissions
          /\ HasRecord(entityOwnership', id) =>
                \A d \in entityOwnership'[id].delegates, p \in Permission :
                   d # entityOwnership'[id].owner =>
                      (HasPermission(entityOwnership', id, d, p)
                          <=> p \in entityOwnership'[id].permissions)]_vars

\* An entity registered without WRITE and DELETE, on which READ and WRITE
\* have been granted, has two delegates: both pass a WRITE check, whatever
\* each was granted.
C31_Witness ==
    /\ HasRecord(entityOwnership, 0)
    /\ entityOwnership[0].permissions = {READ, WRITE}
    /\ Cardinality(entityOwnership[0].delegates \ {entityOwnership[0].owner}) = 2
    /\ \A d \in entityOwnership[0].delegates : HasPermission(entityOwnership, 0, d, WRITE)
    /\ lastCall.op = "grant" /\ lastCall.ok

(***************************************************************************)
(* Stale handles at the capability context (under SpecCtx)                 *)
(***************************************************************************)

\* The step leaves the ownership table and the world as they were.
TableAndWorldStay == UNCHANGED <<entityOwnership, systemEntityCounts, worldVars>>

\* C32 as claimed: once the id of a destroyed entity has been reused, a
\* deleteEntity, grantAccess or transferOwnership that a program makes
\* through its context with the old handle leaves the new entity and the
\* ownership record of the new entity unchanged.
C32_StaleHandleChangesNothing ==
    [][/\ lastCall'.op = "EnhancedSystemContext.deleteEntity" =>
             \A s \in CtxSystems, e \in Handles :
                (Reused(generations, e) /\ EnhancedDeleteEntity(s, e))
                => TableAndWorldStay
       /\ lastCall'.op = "EnhancedSystemContext.grantAccess" =>
             \A s \in CtxSystems, e \in Handles, t \in CtxSystems, ps \in CtxGrantLists :
                (Reused(generations, e) /\ EnhancedGrantAccess(s, e, t, ps))
                => TableAndWorldStay
       /\ lastCall'.op = "EnhancedSystemContext.transferOwnership" =>
             \A s \in CtxSystems, e \in Handles, n \in CtxSystems :
                (Reused(generations, e) /\ EnhancedTransferOwnership(s, e, n))
                => TableAndWorldStay]_vars

(***************************************************************************)
(* The life of a handle (under SpecStore)                                  *)
(***************************************************************************)

\* getAliveCount: nextId - freeList.length
GetAliveCount == Len(generations) - Len(freeList)

\* The ids allocated and not on the free list: the entities created and not
\* destroyed.
IdsInUse == {id \in 0..(Len(generations) - 1) : id \notin Range(freeList)}

\* C33 as claimed: a handle whose entity was destroyed (its id is on the
\* free list) is not alive, no id is on the free list twice, and the alive
\* count is the number of entities created and not destroyed.
C33_AliveOnlyUntilDestroyed ==
    /\ \A e \in StoreHandles : e.id \in Range(freeList) => ~IsAlive(generations, e)
    /\ Cardinality(Range(freeList)) = Len(freeList)
    /\ GetAliveCount = Cardinality(IdsInUse)


(***************************************************************************)
(* What a loaded program may touch                                         *)
(***************************************************************************)

\* The record types the capability context of a loaded program lets through
\* validateComponentAccess: the componentTypes of its UserSystem.
PermittedTypes(name) == loadedSystems[name].componentTypes

\* C34: the record types the capability context of a loaded program permits
\* are exactly the `required` set its source passed to defineSystem, so that
\* no access to a declared type is rejected.
C34_LoadedProgramMayUseWhatItDeclared ==
    (/\ lastLoad.op \in LoadOps
     /\ lastLoad.name # <<>>
     /\ lastLoad.name[1] \in DOMAIN loadedSystems)
    => PermittedTypes(lastLoad.name[1]) = lastLoad.source.required


(***************************************************************************)
(* Whose subscription an unsubscribe removes                               *)
(***************************************************************************)

\* EnhancedSystemContext.unsubscribe called by the program systemId:
\* eventSystem.unsubscribe(subscriptionId), which looks the id up in every
\* event type's array
EnhancedUnsubscribe(systemId, subscriptionId) ==
    \E t \in DOMAIN subscriptions :
        \E sub \in Range(subscriptions[t]) :
            sub.id = subscriptionId /\ Unsubscribe(t, sub)

\* The subscription is in the event type's array.
Subscribed(subs, t, sub) == t \in DOMAIN subs /\ sub \in Range(subs[t])

\* C35: an unsubscribe that a program issues through its context with the
\* id of a subscription of another program leaves that subscription in
\* place.
C35_UnsubscribeRemovesOwnOnly ==
    [][\A s \in EvtSystems : \A t \in DOMAIN subscriptions :
          \A sub \in Range(subscriptions[t]) :
             (sub.systemId # s /\ EnhancedUnsubscribe(s, sub.id))
             => Subscribed(subscriptions', t, sub)]_vars


(***************************************************************************)
(* Delivery while handlers change the subscriptions                        *)
(***************************************************************************)

\* The ids of the subscriptions filterTargetSubscriptions selects among
\* those current when the last emit was made, in the array's order.
MatchedAtStart ==
    LET matched == FilterTargetSubscriptions(lastEmit.current, lastEmit.emitter,
                                             lastEmit.options)
    IN  [i \in 1..Len(matched) |-> matched[i].id]

\* C36: whatever the handlers do to the subscriptions during an emit, every
\* subscription the emit's targeting selected when it started is invoked
\* exactly once, in every targeting mode.
C36_DeliveryUnaffectedByHandlers == lastEmit.invoked = MatchedAtStart


(***************************************************************************)
(* A program's record types after removeSystemComponents                   *)
(***************************************************************************)

\* The program holds no registration: it never declared, or its types were
\* removed.
HoldsNoRegistration(s) ==
    /\ s \notin DOMAIN systemComponents
    /\ \A name \in RegNames : <<s, name>> \notin componentRegistrations

\* C37: once removeSystemComponents has removed a program's record types,
\* getComponentType resolves none of the names it had declared, and a
\* declaration of such a name by the same program with a valid schema
\* succeeds.
C37_RemovedNamesAreFreeAgain ==
    [][/\ lastDefine'.op = "removeSystemComponents"
          => \A s \in RegSystems, name \in RegNames :
                (RemoveSystemComponents(s) /\ <<s, name>> \in componentRegistrations)
                => GetComponentType(name, s)' = <<>>
       /\ lastDefine'.op = "defineComponent"
          => \A s \in RegSystems, name \in RegNames, schema \in Schemas :
                (/\ DefineComponent(name, schema, s)
                 /\ ~ValidateSchemaThrows(schema)
                 /\ <<s, name>> \in everDeclared
                 /\ HoldsNoRegistration(s))
                => lastDefine'.ok]_vars


(***************************************************************************)
(* What a revocation withdraws                                             *)
(***************************************************************************)

\* The table after the owner revokes D on the entity and then grants READ
\* alone to X: revokeAccess and grantAccess on the table `eo`.
RevokedThenGrantedRead(eo, id, D, X) ==
    GrantAccessTable(RevokeAccessTable(eo, id, D), id, X, {READ})

\* C38: on an entity whose permission set does not hold WRITE, the owner
\* grants WRITE to D; if the owner then revokes D and grants READ alone, to
\* D or to another program, D does not pass the WRITE check.
C38_RevocationWithdrawsTheGrant ==
    [][\A id \in EntityIds, D \in Systems :
         (/\ HasRecord(entityOwnership, id)
          /\ WRITE \notin entityOwnership[id].permissions
          /\ ~IsOwner(entityOwnership, id, D)
          /\ GrantAccess(id, entityOwnership[id].owner, D, {WRITE}))
         => \A X \in Systems \ {entityOwnership[id].owner} :
               /\ ~RevokeAccessThrows(entityOwnership', id, entityOwnership[id].owner)
               /\ ~GrantAccessThrows(RevokeAccessTable(entityOwnership', id, D), id,
                                     entityOwnership[id].owner)
               /\ ValidateAccessThrows(
                     RevokedThenGrantedRead(entityOwnership', id, D, X), id, D, WRITE)]_vars


(***************************************************************************)
(* Specification SpecKey: declarations and removals by programs whose      *)
(* deployment names and record-type names hold the separator ':'           *)
(***************************************************************************)

\* A deployment name is the name a source declares followed by a suffix
\* (generateUniqueSystemId) and a record-type name is the string a program
\* passes to defineComponent: either may hold any character.  On these
\* names the keys name + ':' + systemId of componentRegistrations differ
\* pair by pair, so that the <<systemId, name>> pairs stand for them.
KeySystems == {"A", "A:P"}

KeyNames == {"Q", "P:Q"}

KeySchemas == {schema \in Schemas : schema.wellFormed /\ schema.version # NaN}

KeyDefineComponent ==
    /\ nextDynamicId < DynamicIdStart + MaxDynamic
    /\ \E s \in KeySystems, name \in KeyNames, schema \in KeySchemas :
          DefineComponent(name, schema, s)
    /\ RegFrame

KeyRemoveSystemComponents ==
    /\ \E s \in KeySystems : RemoveSystemComponents(s)
    /\ RegFrame

KeyNext == KeyDefineComponent \/ KeyRemoveSystemComponents

SpecKey == RegInit /\ [][KeyNext]_vars

\* C39: a lookup made for one program reads no registration of another:
\* getComponentType resolves a name for a program only if that program
\* declared it, whatever characters the names hold.
C39_LookupIsPerProgram ==
    \A s \in KeySystems, name \in KeyNames :
        GetComponentType(name, s) # <<>> => <<s, name>> \in everDeclared


(***************************************************************************)
(* The per-program entity counts                                           *)
(***************************************************************************)

\* getSystemEntityCount
GetSystemEntityCount(systemId) == CountOf(systemEntityCounts, systemId)

\* The ownership records whose creator is the program.
CreatedBy(systemId) ==
    {id \in DOMAIN entityOwnership : entityOwnership[id].createdBy = systemId}

\* C40: for every program, getSystemEntityCount is the number of ownership
\* records whose creator is that program.
C40_CountIsNumberOfRecordsCreated ==
    \A s \in DOMAIN systemEntityCounts
             \cup {entityOwnership[id].createdBy : id \in DOMAIN entityOwnership} :
        GetSystemEntityCount(s) = Cardinality(CreatedBy(s))

====
